---- MODULE Spec2Model ----
(***************************************************************************)
(* A model of hungrychicken's bot (src/src/bot.rs): the Time/Date values   *)
(* and their parsers, the Filter/Rule evaluator, the priority fold over    *)
(* the rule set, the trip-text pattern, and the monitor loop of            *)
(* bot_thread together with the host's side of the two channels            *)
(* (src/src/main.rs).                                                      *)
(*                                                                         *)
(* Text is modelled as a sequence of one-character strings over an ASCII   *)
(* alphabet.  u8 arithmetic keeps its width: an operation that leaves      *)
(* 0..255 aborts the thread in a build with overflow checks ("debug") and  *)
(* wraps modulo 256 in a build without them ("release"); the variable      *)
(* build says which build is running.                                      *)
(***************************************************************************)
EXTENDS Integers, Sequences, FiniteSets, TLC

VARIABLES
  build,              \* "debug" (overflow checks on) or "release" (wrapping)
  input,              \* the arguments of the pure function under check
  output,             \* what the function returned (NoCall before the call)
  state,              \* bot_thread: AppState
  rules,              \* bot_thread: the adopted rule set
  pc,                 \* bot_thread: position in the main loop
  alive,              \* bot_thread has not aborted
  rx,                 \* the command channel, host to worker
  tx,                 \* the status channel, worker to host
  image_update_time,  \* bot_thread: the cached last-updated image
  new_update_time,    \* bot_thread: the latest capture of that region
  load_icon,          \* bot_thread: the page-loaded reference image
  refresh_interval,   \* bot_thread: seconds until the next refresh
  milis_to_sleep,     \* bot_thread: length of the current idle wait
  m_slept,            \* bot_thread: m, the milliseconds of it already slept
  sink,               \* the alert sound: "paused" or "playing"
  filtered,           \* bot_thread: the (action, id) pairs still to dispatch
  picked,             \* ids the pickup sequence was run for in this cycle
  host_state,         \* App.state of the host
  esc_held,           \* the keyboard: Escape has been pressed and is kept down
  ref_before,         \* history: the cached image the last capture was compared to
  late_start,         \* history, up to the capture: this iteration took a Start the host had revoked
  scrapes             \* history: scrapes attempted in the current iteration

pureVars == <<input, output>>

monVars ==
  <<state, rules, pc, alive, rx, tx, image_update_time, new_update_time,
    load_icon, refresh_interval, milis_to_sleep, m_slept, sink, filtered,
    picked, host_state, esc_held, ref_before, late_start, scrapes>>

vars == <<build, input, output, monVars>>

Builds == {"debug", "release"}

NoCall == [fn |-> "none"]
NoInput == [kind |-> "none"]

(***************************************************************************)
(* Characters and integer parsing                                          *)
(***************************************************************************)
DigitChars == <<"0", "1", "2", "3", "4", "5", "6", "7", "8", "9">>

Digits == {DigitChars[i] : i \in 1..10}

DigitVal(c) == (CHOOSE i \in 1..10 : DigitChars[i] = c) - 1

RECURSIVE DecValue(_)
DecValue(s) ==
  IF Len(s) = 0 THEN 0
  ELSE 10 * DecValue(SubSeq(s, 1, Len(s) - 1)) + DigitVal(s[Len(s)])

ParseErr == [ok |-> FALSE]

\* str::parse::<u8>(): an optional leading "+", then one or more ASCII
\* digits, and the value must fit 8 bits.
ParseU8(s) ==
  IF Len(s) = 0 THEN ParseErr
  ELSE IF Len(s) = 1 /\ s[1] \in {"+", "-"} THEN ParseErr
  ELSE LET digits == IF s[1] = "+" THEN Tail(s) ELSE s
       IN IF \E i \in 1..Len(digits) : digits[i] \notin Digits THEN ParseErr
          ELSE IF DecValue(digits) > 255 THEN ParseErr
          ELSE [ok |-> TRUE, val |-> DecValue(digits)]

(***************************************************************************)
(* Time                                                                    *)
(***************************************************************************)
Time(h, m) == [hours |-> h, minutes |-> m]

TimeDefault == Time(0, 0)

ParseTimeError == [ok |-> FALSE]

from_num_str(s) ==
  IF Len(s) = 4 THEN
    LET h == ParseU8(SubSeq(s, 1, 2))
        m == ParseU8(SubSeq(s, 3, 4))
    IN IF ~h.ok THEN ParseTimeError
       ELSE IF ~m.ok THEN ParseTimeError
       ELSE [ok |-> TRUE, val |-> Time(h.val, m.val)]
  ELSE IF Len(s) = 5 THEN
    LET h == ParseU8(SubSeq(s, 1, 2))
        m == ParseU8(SubSeq(s, 4, 5))
    IN IF ~h.ok THEN ParseTimeError
       ELSE IF ~m.ok THEN ParseTimeError
       ELSE [ok |-> TRUE, val |-> Time(h.val, m.val)]
  ELSE ParseTimeError

from_str_nosep(s) ==
  IF Len(s) = 4 \/ Len(s) = 5 THEN
    LET h == ParseU8(SubSeq(s, 1, 2))
        m == ParseU8(SubSeq(s, 3, 4))
    IN IF ~h.ok THEN ParseTimeError
       ELSE IF ~m.ok THEN ParseTimeError
       ELSE [ok |-> TRUE, val |-> Time(h.val, m.val)]
  ELSE ParseTimeError

from_str(s) ==
  IF Len(s) = 4 THEN
    LET h == ParseU8(SubSeq(s, 1, 2))
        m == ParseU8(SubSeq(s, 3, 4))
    IN IF ~h.ok THEN ParseTimeError
       ELSE IF ~m.ok THEN ParseTimeError
       ELSE [ok |-> TRUE, val |-> Time(h.val, m.val)]
  ELSE IF Len(s) = 5 THEN
    LET h == ParseU8(SubSeq(s, 1, 2))
        m == ParseU8(SubSeq(s, 4, 5))
    IN IF ~h.ok THEN ParseTimeError
       ELSE IF ~m.ok THEN ParseTimeError
       ELSE [ok |-> TRUE, val |-> Time(h.val, m.val)]
  ELSE ParseTimeError

\* derive(Ord) on Time: hours first, then minutes.
TimeLt(a, b) ==
  a.hours < b.hours \/ (a.hours = b.hours /\ a.minutes < b.minutes)

\* One u8 operation: the wrapped value, and whether it left 0..255.
U8(x) == [val |-> x % 256, over |-> x < 0 \/ x > 255]

\* The hour expression of Time::sub, evaluated left to right in u8.
\* borrow is 1 in the branch rhs.minutes > self.minutes and 0 in the other.
SubHours(h, rh, borrow) ==
  IF rh > h THEN
    LET d == U8(h - rh)
        e == IF borrow = 1 THEN U8(d.val - 1) ELSE d
    IN [val |-> e.val, over |-> d.over \/ e.over]
  ELSE
    LET a == U8(12 + h)
        d == U8(a.val - rh)
        e == IF borrow = 1 THEN U8(d.val - 1) ELSE d
    IN [val |-> e.val, over |-> a.over \/ d.over \/ e.over]

Time_sub_keep_hour(self, rhs) ==
  IF rhs.minutes > self.minutes THEN
    LET hh == SubHours(self.hours, rhs.hours, 0)
        a == U8(60 + self.minutes)
        mm == U8(a.val - rhs.minutes)
    IN [over |-> hh.over \/ a.over \/ mm.over,
        val |-> Time(hh.val, mm.val)]
  ELSE
    LET hh == SubHours(self.hours, rhs.hours, 0)
        mm == U8(self.minutes - rhs.minutes)
    IN [over |-> hh.over \/ mm.over, val |-> Time(hh.val, mm.val)]

\* impl Sub for Time.  over says that some u8 operation left 0..255: the
\* value is what a wrapping build yields, a checking build aborts.
Time_sub(self, rhs) ==
  IF rhs.minutes > self.minutes THEN
    LET hh == SubHours(self.hours, rhs.hours, 1)
        a == U8(60 + self.minutes)
        mm == U8(a.val - rhs.minutes)
    IN [over |-> hh.over \/ a.over \/ mm.over,
        val |-> Time(hh.val, mm.val)]
  ELSE
    LET hh == SubHours(self.hours, rhs.hours, 0)
        mm == U8(self.minutes - rhs.minutes)
    IN [over |-> hh.over \/ mm.over, val |-> Time(hh.val, mm.val)]

\* What a caller of lhs - rhs gets in build b: the value, or the abort.
Panic == [panic |-> TRUE]

SubIn(b, lhs, rhs) ==
  LET r == Time_sub(lhs, rhs)
  IN IF r.over /\ b = "debug" THEN Panic
     ELSE [panic |-> FALSE, val |-> r.val]

(***************************************************************************)
(* Date                                                                    *)
(***************************************************************************)
Date(y, mo, d) == [year |-> y, month |-> mo, day |-> d]

DefaultYear == 2025

ParseDateError == [ok |-> FALSE]

MonthNames ==
  << <<"J", "A", "N">>, <<"F", "E", "B">>, <<"M", "A", "R">>,
     <<"A", "P", "R">>, <<"M", "A", "Y">>, <<"J", "U", "N">>,
     <<"J", "U", "L">>, <<"A", "U", "G">>, <<"S", "E", "P">>,
     <<"O", "C", "T">>, <<"N", "O", "V">>, <<"D", "E", "C">> >>

month_from_str(s) ==
  IF \E i \in 1..12 : MonthNames[i] = s
  THEN [ok |-> TRUE, val |-> CHOOSE i \in 1..12 : MonthNames[i] = s]
  ELSE ParseDateError

Date_from_str(s) ==
  IF Len(s) # 5 THEN ParseDateError
  ELSE LET mo == month_from_str(SubSeq(s, 3, 5))
           d == ParseU8(SubSeq(s, 1, 2))
       IN IF ~mo.ok THEN ParseDateError
          ELSE IF ~d.ok THEN ParseDateError
          ELSE [ok |-> TRUE, val |-> Date(DefaultYear, mo.val, d.val)]

\* derive(Ord) on Date: year, then month, then day.
DateLt(a, b) ==
  \/ a.year < b.year
  \/ a.year = b.year /\ a.month < b.month
  \/ a.year = b.year /\ a.month = b.month /\ a.day < b.day

(***************************************************************************)
(* Trip, Filter, Rule                                                      *)
(***************************************************************************)
Fields == {"Report", "Depart", "Arrive", "Block", "Credit"}

Ops == {"Eq", "NEq", "Lt", "LtEq", "GtEq", "Gt"}

BotActions == {"Nothing", "Alert", "Pickup", "Ignore"}

\* The u8 discriminants of BotAction.
ActionCode(a) ==
  CASE a = "Nothing" -> 1
    [] a = "Alert" -> 2
    [] a = "Pickup" -> 3
    [] a = "Ignore" -> 4

Trip_get(trip, field) ==
  CASE field = "Report" -> trip.report
    [] field = "Depart" -> trip.depart
    [] field = "Arrive" -> trip.arrive
    [] field = "Block" -> trip.block
    [] field = "Credit" -> trip.credit

\* Comparison arms in the order the Op enum declares its variants (GtEq
\* before Gt), so that the two trade places.
OpHoldsDeclOrder(op, lt, eq) ==
  CASE op = "Eq" -> eq
    [] op = "NEq" -> ~eq
    [] op = "Lt" -> lt
    [] op = "LtEq" -> lt \/ eq
    [] op = "GtEq" -> ~lt /\ ~eq
    [] op = "Gt" -> ~lt

\* The six comparison arms of Filter::eval, from "less than" and "equal"
\* of the compared type.
OpHolds(op, lt, eq) ==
  CASE op = "Eq" -> eq
    [] op = "NEq" -> ~eq
    [] op = "Lt" -> lt
    [] op = "LtEq" -> lt \/ eq
    [] op = "Gt" -> ~lt /\ ~eq
    [] op = "GtEq" -> ~lt

Returned(v) == [panic |-> FALSE, val |-> v]

contains_first_only(layovers, val) ==
  Len(layovers) > 0 /\ layovers[1] = val

\* Vec<String>::contains
contains(layovers, val) ==
  \E i \in 1..Len(layovers) : layovers[i] = val

\* Filter::eval in build b: the boolean, or the abort of the subtraction.
Filter_eval(filter, trip, b) ==
  CASE filter.kind = "TimeDiff" ->
         LET d == SubIn(b, Trip_get(trip, filter.lhs), Trip_get(trip, filter.rhs))
         IN IF d.panic THEN Panic
            ELSE Returned(OpHolds(filter.op, TimeLt(d.val, filter.val),
                                  d.val = filter.val))
    [] filter.kind = "FieldIs" ->
         LET t == Trip_get(trip, filter.field)
         IN Returned(OpHolds(filter.op, TimeLt(t, filter.val), t = filter.val))
    [] filter.kind = "DateIs" ->
         Returned(OpHolds(filter.op, DateLt(trip.date, filter.val),
                          trip.date = filter.val))
    [] filter.kind = "IncludeLayover" ->
         Returned(contains(trip.layovers, filter.val))
    [] filter.kind = "ExcludeLayover" ->
         Returned(~contains(trip.layovers, filter.val))
    [] filter.kind = "NumDays" ->
         Returned(OpHolds(filter.op, trip.days < filter.val,
                          trip.days = filter.val))
    [] filter.kind = "IsPrem" -> Returned(trip.premium)
    [] filter.kind = "IncludeId" -> Returned(trip.id = filter.val)

\* The loop of Rule::eval from filter i on.  evaluated counts the filters
\* whose eval was called; diag is what the loop printed.
RECURSIVE EvalFrom(_, _, _, _)
EvalFrom(filters, i, trip, b) ==
  IF i > Len(filters)
  THEN [panic |-> FALSE, val |-> TRUE, evaluated |-> Len(filters), diag |-> <<>>]
  ELSE LET r == Filter_eval(filters[i], trip, b)
       IN IF r.panic
          THEN [panic |-> TRUE, evaluated |-> i, diag |-> <<>>]
          ELSE IF ~r.val
          THEN [panic |-> FALSE, val |-> FALSE, evaluated |-> i,
                diag |-> <<[trip |-> trip.id, filter |-> filters[i]]>>]
          ELSE EvalFrom(filters, i + 1, trip, b)

\* A loop that does not return at the first failing filter: it runs to the
\* end and reports the last one.
RECURSIVE EvalAllFrom(_, _, _, _, _)
EvalAllFrom(filters, i, trip, b, acc) ==
  IF i > Len(filters) THEN acc
  ELSE LET r == Filter_eval(filters[i], trip, b)
       IN IF r.panic
          THEN [panic |-> TRUE, evaluated |-> i, diag |-> <<>>]
          ELSE IF ~r.val
          THEN EvalAllFrom(filters, i + 1, trip, b,
                 [panic |-> FALSE, val |-> FALSE, evaluated |-> i,
                  diag |-> <<[trip |-> trip.id, filter |-> filters[i]]>>])
          ELSE EvalAllFrom(filters, i + 1, trip, b,
                 [acc EXCEPT !.evaluated = i])

Rule_eval_no_return(rule, trip, b) ==
  EvalAllFrom(rule.filters, 1, trip, b,
    [panic |-> FALSE, val |-> TRUE, evaluated |-> 0, diag |-> <<>>])

Rule_eval(rule, trip, b) == EvalFrom(rule.filters, 1, trip, b)

get_action(rule, trip, b) ==
  LET e == Rule_eval(rule, trip, b)
  IN IF e.panic THEN Panic
     ELSE IF e.val THEN Returned(rule.action)
     ELSE Returned("Nothing")

first_match_step(a, b) == IF a = "Nothing" THEN b ELSE a

\* The closure of the fold: |a, b| if b as u8 > a as u8 { b } else { a }
fold_step(a, b) == IF ActionCode(b) > ActionCode(a) THEN b ELSE a

\* rules.iter().map(|r| r.get_action(t)).fold(BotAction::Nothing, ...)
\* from rule i on, with accumulator acc.
RECURSIVE FoldFrom(_, _, _, _, _)
FoldFrom(rs, i, trip, b, acc) ==
  IF i > Len(rs) THEN Returned(acc)
  ELSE LET a == get_action(rs[i], trip, b)
       IN IF a.panic THEN Panic
          ELSE FoldFrom(rs, i + 1, trip, b, fold_step(acc, a.val))

resolve_action(rs, trip, b) == FoldFrom(rs, 1, trip, b, "Nothing")

(***************************************************************************)
(* The trip pattern re_opentime_trip and the construction of the trips     *)
(***************************************************************************)
\* The pattern, built with multi_line(true), is
\*   ^(\w+)\s+(\w+)\s+(\d+)\s+(\S+)\s+(\S+)\s+(\S+)\s+(\d+)\s+(\d+)\s+
\*   ((?:\S{3}\s*)*)\s*(X?)\s*$
\* and is matched the way the regex crate matches it: leftmost, every
\* quantifier greedy, giving back one repetition at a time.
Letters ==
  {"A", "B", "C", "D", "E", "F", "G", "H", "I", "J", "K", "L", "M", "N", "O",
   "P", "Q", "R", "S", "T", "U", "V", "W", "X", "Y", "Z"}

Spaces == {" ", "\n"}

\* The character classes \w, \d, \s, \S and the literal X.
InClass(c, class) ==
  CASE class = "w" -> c \in Letters \cup Digits \cup {"_"}
    [] class = "d" -> c \in Digits
    [] class = "s" -> c \in Spaces
    [] class = "S" -> c \notin Spaces
    [] class = "X" -> c = "X"

\* The pattern as a sequence of stages.  A "rep" stage repeats a class min
\* to max times (max 0: no limit) and captures into group cap when cap is
\* not ""; the "lay" stage is the group ((?:\S{3}\s*)*); "end" is $.
PatternStages ==
  << [kind |-> "rep", class |-> "w", min |-> 1, max |-> 0, cap |-> "tripid"],
     [kind |-> "rep", class |-> "s", min |-> 1, max |-> 0, cap |-> ""],
     [kind |-> "rep", class |-> "w", min |-> 1, max |-> 0, cap |-> "date"],
     [kind |-> "rep", class |-> "s", min |-> 1, max |-> 0, cap |-> ""],
     [kind |-> "rep", class |-> "d", min |-> 1, max |-> 0, cap |-> "days"],
     [kind |-> "rep", class |-> "s", min |-> 1, max |-> 0, cap |-> ""],
     [kind |-> "rep", class |-> "S", min |-> 1, max |-> 0, cap |-> "report"],
     [kind |-> "rep", class |-> "s", min |-> 1, max |-> 0, cap |-> ""],
     [kind |-> "rep", class |-> "S", min |-> 1, max |-> 0, cap |-> "depart"],
     [kind |-> "rep", class |-> "s", min |-> 1, max |-> 0, cap |-> ""],
     [kind |-> "rep", class |-> "S", min |-> 1, max |-> 0, cap |-> "arrive"],
     [kind |-> "rep", class |-> "s", min |-> 1, max |-> 0, cap |-> ""],
     [kind |-> "rep", class |-> "d", min |-> 1, max |-> 0, cap |-> "bulk"],
     [kind |-> "rep", class |-> "s", min |-> 1, max |-> 0, cap |-> ""],
     [kind |-> "rep", class |-> "d", min |-> 1, max |-> 0, cap |-> "credit"],
     [kind |-> "rep", class |-> "s", min |-> 1, max |-> 0, cap |-> ""],
     [kind |-> "lay", class |-> "S", min |-> 0, max |-> 0, cap |-> "layovers"],
     [kind |-> "rep", class |-> "s", min |-> 0, max |-> 0, cap |-> ""],
     [kind |-> "rep", class |-> "X", min |-> 0, max |-> 1, cap |-> "prem"],
     [kind |-> "rep", class |-> "s", min |-> 0, max |-> 0, cap |-> ""],
     [kind |-> "end", class |-> "s", min |-> 0, max |-> 0, cap |-> ""] >>

Groups ==
  {"tripid", "date", "days", "report", "depart", "arrive", "bulk", "credit",
   "layovers", "prem"}

NoMatch == [ok |-> FALSE]

\* The number of consecutive characters of the class from position p on.
RECURSIVE Run(_, _, _)
Run(t, p, class) ==
  IF p > Len(t) THEN 0
  ELSE IF ~InClass(t[p], class) THEN 0
  ELSE 1 + Run(t, p + 1, class)

\* ^ and $ under multi_line(true).
AtLineStart(t, p) == p = 1 \/ t[p - 1] = "\n"

AtLineEnd(t, p) == p = Len(t) + 1 \/ t[p] = "\n"

\* The first (greediest) choice of stage k at position p: for a "rep" stage
\* the longest run; for the "lay" stage 0 leaves the group, and w + 1 takes
\* one more \S{3} followed by w whitespace characters.
FirstChoice(t, k, p) ==
  LET st == PatternStages[k]
  IN CASE st.kind = "rep" ->
            LET n == Run(t, p, st.class)
            IN IF st.max > 0 /\ n > st.max THEN st.max ELSE n
       [] st.kind = "lay" ->
            IF Run(t, p, "S") >= 3 THEN Run(t, p + 3, "s") + 1 ELSE 0
       [] st.kind = "end" -> 0

\* The match of stages k.. from position p, trying choice j of stage k and
\* then the smaller ones: the end of the match and the groups' spans
\* (first position, position after the last), or NoMatch.
RECURSIVE MatchFrom(_, _, _, _)
MatchFrom(t, k, p, j) ==
  LET st == PatternStages[k]
  IN IF st.kind = "end"
     THEN IF AtLineEnd(t, p)
          THEN [ok |-> TRUE, end |-> p, caps |-> [g \in Groups |-> <<p, p>>]]
          ELSE NoMatch
     ELSE IF j < st.min THEN NoMatch
     ELSE LET again == st.kind = "lay" /\ j > 0
              nk == IF again THEN k ELSE k + 1
              np == IF st.kind = "lay"
                    THEN (IF j > 0 THEN p + 3 + (j - 1) ELSE p)
                    ELSE p + j
              r == MatchFrom(t, nk, np, FirstChoice(t, nk, np))
          IN IF r.ok
             THEN IF st.cap = "" THEN r
                  ELSE IF st.kind = "lay"
                  THEN [r EXCEPT !.caps[st.cap] =
                          <<p, IF again THEN r.caps[st.cap][2] ELSE p>>]
                  ELSE [r EXCEPT !.caps[st.cap] = <<p, p + j>>]
             ELSE MatchFrom(t, k, p, j - 1)

\* The match that starts at position s, if any.
MatchAt(t, s) ==
  IF AtLineStart(t, s) THEN MatchFrom(t, 1, s, FirstChoice(t, 1, s))
  ELSE NoMatch

\* captures_iter: the successive non-overlapping matches from position s on.
RECURSIVE captures_iter(_, _)
captures_iter(t, s) ==
  IF s > Len(t) THEN <<>>
  ELSE LET m == MatchAt(t, s)
       IN IF m.ok THEN <<m>> \o captures_iter(t, m.end)
          ELSE captures_iter(t, s + 1)

Group(t, m, g) == SubSeq(t, m.caps[g][1], m.caps[g][2] - 1)

\* str::split_whitespace
RECURSIVE split_whitespace(_)
split_whitespace(s) ==
  IF Len(s) = 0 THEN <<>>
  ELSE IF s[1] \in Spaces THEN split_whitespace(Tail(s))
  ELSE LET n == Run(s, 1, "S")
       IN <<SubSeq(s, 1, n)>> \o split_whitespace(SubSeq(s, n + 1, Len(s)))

\* The closure that builds one Trip from one match; every parse is
\* unwrapped, so a field that fails its parser aborts the thread.
TripOf(t, m) ==
  LET date == Date_from_str(Group(t, m, "date"))
      days == ParseU8(Group(t, m, "days"))
      rep == from_str(Group(t, m, "report"))
      dep == from_str(Group(t, m, "depart"))
      arr == from_str(Group(t, m, "arrive"))
      blk == from_num_str(Group(t, m, "bulk"))
      crd == from_num_str(Group(t, m, "credit"))
  IN IF date.ok /\ days.ok /\ rep.ok /\ dep.ok /\ arr.ok /\ blk.ok /\ crd.ok
     THEN Returned([id |-> Group(t, m, "tripid"),
                    date |-> date.val,
                    days |-> days.val,
                    report |-> rep.val,
                    depart |-> dep.val,
                    arrive |-> arr.val,
                    block |-> blk.val,
                    credit |-> crd.val,
                    layovers |-> split_whitespace(Group(t, m, "layovers")),
                    premium |-> Len(Group(t, m, "prem")) # 0])
     ELSE Panic

\* A collection that leaves out a match whose field fails its parser.
RECURSIVE CollectTripsSkipsBad(_, _, _)
CollectTripsSkipsBad(t, ms, i) ==
  IF i > Len(ms) THEN Returned(<<>>)
  ELSE IF TripOf(t, ms[i]).panic THEN CollectTripsSkipsBad(t, ms, i + 1)
  ELSE Returned(<<TripOf(t, ms[i]).val>> \o CollectTripsSkipsBad(t, ms, i + 1).val)

RECURSIVE CollectTrips(_, _, _)
CollectTrips(t, ms, i) ==
  IF i > Len(ms) THEN Returned(<<>>)
  ELSE LET trip == TripOf(t, ms[i])
       IN IF trip.panic THEN Panic
          ELSE LET rest == CollectTrips(t, ms, i + 1)
               IN IF rest.panic THEN Panic
                  ELSE Returned(<<trip.val>> \o rest.val)

\* The trips of one clipboard text: captures_iter(..).map(..).collect()
parse_trips(t) == CollectTrips(t, captures_iter(t, 1), 1)

(***************************************************************************)
(* BotConfig                                                               *)
(***************************************************************************)
\* BotConfig::default(): refresh_interval = (RefreshLo, RefreshHi)
RefreshLo == 10

RefreshHi == 30

(***************************************************************************)
(* The monitor's variables at rest, for the specifications that exercise   *)
(* the pure functions.                                                     *)
(***************************************************************************)
MonitorAtRest ==
  /\ state = "Stopped"
  /\ rules = <<>>
  /\ pc = "top"
  /\ alive = TRUE
  /\ rx = <<>>
  /\ tx = <<>>
  /\ image_update_time = "t1"
  /\ new_update_time = "unset"
  /\ load_icon = "loaded"
  /\ refresh_interval = RefreshLo
  /\ milis_to_sleep = 0
  /\ m_slept = 0
  /\ sink = "paused"
  /\ filtered = <<>>
  /\ picked = <<>>
  /\ host_state = "Stopped"
  /\ esc_held = FALSE
  /\ ref_before = "unset"
  /\ late_start = FALSE
  /\ scrapes = 0

(***************************************************************************)
(* SpecTime: Time subtraction and Time parsing on drawn inputs             *)
(***************************************************************************)
MaxTokLen == 6

Hours == 0..23

MinuteSamples == {0, 1, 15, 29, 30, 45, 58, 59}

Minutes == 0..59

TokenAlphabet == {"0", "9", ":", "+", "A"}

RECURSIVE SeqsUpTo(_, _)
SeqsUpTo(S, n) ==
  IF n = 0 THEN {<<>>}
  ELSE LET shorter == SeqsUpTo(S, n - 1)
       IN shorter \cup {Append(s, c) : s \in {t \in shorter : Len(t) = n - 1}, c \in S}

TwoDigits(n) == <<DigitChars[(n \div 10) + 1], DigitChars[(n % 10) + 1]>>

\* The clock token of h:m, with or without the separator.
ClockToken(h, m, sep) ==
  IF sep THEN TwoDigits(h) \o <<":">> \o TwoDigits(m)
  ELSE TwoDigits(h) \o TwoDigits(m)

TimeInputs ==
  [kind : {"pair"},
   lhs : {Time(h, m) : h \in Hours, m \in MinuteSamples},
   rhs : {Time(h, m) : h \in Hours, m \in MinuteSamples}]
  \cup [kind : {"clock"}, h : Hours, m : Minutes, sep : BOOLEAN]
  \cup [kind : {"raw"}, tok : SeqsUpTo(TokenAlphabet, MaxTokLen)]

TokenOf(i) ==
  IF i.kind = "clock" THEN ClockToken(i.h, i.m, i.sep) ELSE i.tok

InitTime ==
  /\ build \in Builds
  /\ input \in TimeInputs
  /\ output = NoCall
  /\ MonitorAtRest

CallSub ==
  /\ input.kind = "pair"
  /\ output = NoCall
  /\ output' = [fn |-> "sub", ret |-> SubIn(build, input.lhs, input.rhs)]
  /\ UNCHANGED <<build, input, monVars>>

CallFromStr ==
  /\ input.kind \in {"clock", "raw"}
  /\ output = NoCall
  /\ output' = [fn |-> "from_str", ret |-> from_str(TokenOf(input))]
  /\ UNCHANGED <<build, input, monVars>>

CallFromNumStr ==
  /\ input.kind \in {"clock", "raw"}
  /\ output = NoCall
  /\ output' = [fn |-> "from_num_str", ret |-> from_num_str(TokenOf(input))]
  /\ UNCHANGED <<build, input, monVars>>

NextTime == CallSub \/ CallFromStr \/ CallFromNumStr

SpecTime == InitTime /\ [][NextTime]_vars

(***************************************************************************)
(* Claims about Time                                                       *)
(***************************************************************************)

\* C5: for all TimeValue pairs a, b with a.hours >= b.hours and
\* a.minutes >= b.minutes (no borrow), a - b equals
\* {hours: a.hours - b.hours, minutes: a.minutes - b.minutes}.
C5_NoBorrowDifference ==
  (/\ output.fn = "sub"
   /\ input.lhs.hours >= input.rhs.hours
   /\ input.lhs.minutes >= input.rhs.minutes)
  => output.ret = [panic |-> FALSE,
                   val |-> Time(input.lhs.hours - input.rhs.hours,
                                input.lhs.minutes - input.rhs.minutes)]

\* C6: for all lhs, rhs with rhs.minutes > lhs.minutes, whenever lhs - rhs
\* yields a value its minutes are 60 + lhs.minutes - rhs.minutes and its
\* hour component is exactly one less than the hour component the
\* subtraction yields for the same two hour values without a minute borrow;
\* and it aborts only when that borrow-free subtraction aborts too.
C6_BorrowOneLess ==
  (/\ output.fn = "sub"
   /\ input.rhs.minutes > input.lhs.minutes)
  => LET plain == SubIn(build, Time(input.lhs.hours, 0), Time(input.rhs.hours, 0))
     IN IF output.ret.panic THEN plain.panic
        ELSE /\ ~plain.panic
             /\ output.ret.val.minutes = 60 + input.lhs.minutes - input.rhs.minutes
             /\ output.ret.val.hours = plain.val.hours - 1

\* C6 witness: a borrow has happened and the subtraction yielded a value.
C6_Witness ==
  /\ output.fn = "sub"
  /\ input.rhs.minutes > input.lhs.minutes
  /\ input.lhs.hours > input.rhs.hours
  /\ ~output.ret.panic
  /\ output.ret.val.minutes = 31

\* C7: every token HHMM or HH:MM with HH in 00..23 and MM in 00..59 parses
\* to exactly those hours and minutes, through FromStr and through
\* from_num_str; every token whose length is neither 4 nor 5 fails.
C7_ParseClockTokens ==
  output.fn \in {"from_str", "from_num_str"}
  => /\ input.kind = "clock"
        => output.ret = [ok |-> TRUE, val |-> Time(input.h, input.m)]
     /\ Len(TokenOf(input)) \notin {4, 5} => output.ret = ParseTimeError

\* C7 witness: the five-character token 23:59 has been parsed by FromStr.
C7_Witness ==
  /\ output.fn = "from_str"
  /\ input.kind = "clock"
  /\ input.sep
  /\ input.h = 23
  /\ input.m = 59
  /\ output.ret.ok

(***************************************************************************)
(* Sample trips and filters for the evaluator's specifications             *)
(***************************************************************************)
LHR == <<"L", "H", "R">>

CDG == <<"C", "D", "G">>

AMS == <<"A", "M", "S">>

LayoverCodes == {LHR, CDG, AMS}

TripAB12 ==
  [id |-> <<"A", "B", "1", "2">>, date |-> Date(DefaultYear, 1, 15), days |-> 3,
   report |-> Time(7, 0), depart |-> Time(7, 30), arrive |-> Time(15, 0),
   block |-> Time(8, 0), credit |-> Time(6, 0),
   layovers |-> <<LHR, CDG>>, premium |-> FALSE]

TripCD34 ==
  [id |-> <<"C", "D", "3", "4">>, date |-> Date(DefaultYear, 2, 2), days |-> 1,
   report |-> Time(13, 15), depart |-> Time(14, 0), arrive |-> Time(9, 45),
   block |-> Time(5, 30), credit |-> Time(5, 30),
   layovers |-> <<>>, premium |-> TRUE]

TripEF56 ==
  [id |-> <<"E", "F", "5", "6">>, date |-> Date(DefaultYear, 12, 31), days |-> 4,
   report |-> Time(5, 45), depart |-> Time(6, 30), arrive |-> Time(23, 10),
   block |-> Time(11, 20), credit |-> Time(12, 0),
   layovers |-> <<AMS>>, premium |-> FALSE]

TripGH78 ==
  [id |-> <<"G", "H", "7", "8">>, date |-> Date(DefaultYear, 1, 15), days |-> 3,
   report |-> Time(0, 0), depart |-> Time(0, 45), arrive |-> Time(0, 30),
   block |-> Time(23, 45), credit |-> Time(0, 0),
   layovers |-> <<CDG, LHR, AMS>>, premium |-> TRUE]

TripSamples == {TripAB12, TripCD34, TripEF56, TripGH78}

FIsPrem == [kind |-> "IsPrem"]

FInclude(c) == [kind |-> "IncludeLayover", val |-> c]

FExclude(c) == [kind |-> "ExcludeLayover", val |-> c]

FLongLeg ==
  [kind |-> "TimeDiff", lhs |-> "Arrive", rhs |-> "Depart", op |-> "Gt",
   val |-> Time(5, 0)]

FilterPool ==
  {FIsPrem, FInclude(LHR), FExclude(CDG), FLongLeg,
   [kind |-> "NumDays", op |-> "GtEq", val |-> 3],
   [kind |-> "FieldIs", field |-> "Report", op |-> "Lt", val |-> Time(8, 0)],
   [kind |-> "DateIs", op |-> "Lt", val |-> Date(DefaultYear, 2, 1)],
   [kind |-> "IncludeId", val |-> <<"A", "B", "1", "2">>]}

LayoverFilters ==
  {FInclude(c) : c \in LayoverCodes} \cup {FExclude(c) : c \in LayoverCodes}

(***************************************************************************)
(* SpecEval: Filter::eval and Rule::eval on drawn trips and filters        *)
(***************************************************************************)
MaxFilters == 3

EvalInputs ==
  [kind : {"rule"}, trip : TripSamples,
   filters : SeqsUpTo(FilterPool, MaxFilters)]
  \cup [kind : {"filter"}, trip : TripSamples,
        filter : FilterPool \cup LayoverFilters]

InitEval ==
  /\ build \in Builds
  /\ input \in EvalInputs
  /\ output = NoCall
  /\ MonitorAtRest

CallRuleEval ==
  /\ input.kind = "rule"
  /\ output = NoCall
  /\ output' = [fn |-> "rule_eval",
                ret |-> Rule_eval([name |-> "rule", filters |-> input.filters,
                                   action |-> "Alert"], input.trip, build)]
  /\ UNCHANGED <<build, input, monVars>>

CallFilterEval ==
  /\ input.kind = "filter"
  /\ output = NoCall
  /\ output' = [fn |-> "filter_eval",
                ret |-> Filter_eval(input.filter, input.trip, build)]
  /\ UNCHANGED <<build, input, monVars>>

NextEval == CallRuleEval \/ CallFilterEval

SpecEval == InitEval /\ [][NextEval]_vars

\* Filter i of the drawn rule passes on the drawn trip.
Passes(f, trip) == Filter_eval(f, trip, build) = Returned(TRUE)

\* C4: Rule.eval returns true exactly when every filter evaluates true, and
\* false exactly when some filter fails; it then has stopped at the first
\* failing filter in declared order (no later filter was evaluated, and the
\* diagnostic names that filter).  An empty filter list evaluates true.
C4_RuleEvalShortCircuit ==
  (output.fn = "rule_eval" /\ ~output.ret.panic)
  => LET fs == input.filters
         r == output.ret
         failing == {i \in 1..Len(fs) :
                       (\A j \in 1..(i - 1) : Passes(fs[j], input.trip))
                       /\ Filter_eval(fs[i], input.trip, build) = Returned(FALSE)}
     IN /\ r.val = (\A i \in 1..Len(fs) : Passes(fs[i], input.trip))
        /\ r.val => r.evaluated = Len(fs) /\ r.diag = <<>>
        /\ ~r.val => \E k \in failing :
                        /\ r.evaluated = k
                        /\ r.diag = <<[trip |-> input.trip.id, filter |-> fs[k]]>>
        /\ fs = <<>> => r.val

\* C4 witness: a rule of three filters has failed at its second filter, the
\* third one (which fails as well) not evaluated.
C4_Witness ==
  /\ output.fn = "rule_eval"
  /\ Len(input.filters) = 3
  /\ ~output.ret.panic
  /\ ~output.ret.val
  /\ output.ret.evaluated = 2
  /\ Filter_eval(input.filters[3], input.trip, build) = Returned(FALSE)

\* C9: IncludeLayover(c) evaluates true exactly when c is an element of
\* trip.layovers, and ExcludeLayover(c) evaluates to the negation of
\* IncludeLayover(c).
C9_LayoverMembership ==
  output.fn = "filter_eval"
  => /\ input.filter.kind = "IncludeLayover"
        => output.ret = Returned(input.filter.val \in
                                   {input.trip.layovers[i] :
                                      i \in 1..Len(input.trip.layovers)})
     /\ input.filter.kind = "ExcludeLayover"
        => /\ ~output.ret.panic
           /\ output.ret.val =
                ~Filter_eval(FInclude(input.filter.val), input.trip, build).val

\* C9 witness: on layovers [LHR, CDG], IncludeLayover(CDG) has evaluated true.
C9_Witness ==
  /\ output.fn = "filter_eval"
  /\ input.trip.layovers = <<LHR, CDG>>
  /\ input.filter = FInclude(CDG)
  /\ output.ret = Returned(TRUE)

(***************************************************************************)
(* SpecResolve: the priority fold on drawn trips and rule lists            *)
(***************************************************************************)
MaxRules == 3

RuleFilterLists == {<<>>, <<FInclude(LHR), FLongLeg>>}

RulePool == [name : {"rule"}, filters : RuleFilterLists, action : BotActions]

ResolveInputs ==
  [kind : {"rules"}, trip : TripSamples, rules : SeqsUpTo(RulePool, MaxRules)]

InitResolve ==
  /\ build \in Builds
  /\ input \in ResolveInputs
  /\ output = NoCall
  /\ MonitorAtRest

CallResolve ==
  /\ input.kind = "rules"
  /\ output = NoCall
  /\ output' = [fn |-> "resolve",
                ret |-> resolve_action(input.rules, input.trip, build)]
  /\ UNCHANGED <<build, input, monVars>>

NextResolve == CallResolve

SpecResolve == InitResolve /\ [][NextResolve]_vars

\* The rule's filters all pass on the trip.
Matches(rule, trip) ==
  \A i \in 1..Len(rule.filters) : Passes(rule.filters[i], trip)

\* The configured actions of the rules that match, and Nothing.
MatchedActions(rs, trip) ==
  {"Nothing"} \cup {rs[i].action : i \in {j \in 1..Len(rs) : Matches(rs[j], trip)}}

\* The ranking Nothing < Alert < Pickup; the inert fourth value ranks with
\* Nothing.
ClaimedRank(a) ==
  CASE a = "Nothing" -> 0
    [] a = "Ignore" -> 0
    [] a = "Alert" -> 1
    [] a = "Pickup" -> 2

\* C1: the resolved action is the highest-ranked action, under
\* Nothing < Alert < Pickup, among Nothing and the configured actions of
\* exactly the rules whose filters all pass.
C1_ResolvedIsMaxOfMatching ==
  (output.fn = "resolve" /\ ~output.ret.panic)
  => LET m == MatchedActions(input.rules, input.trip)
     IN /\ output.ret.val \in m
        /\ \A a \in m : ClaimedRank(output.ret.val) >= ClaimedRank(a)

\* C2: when some rule with action Pickup matches the trip, the resolved
\* action is Pickup, whatever the other rules are.
C2_MatchingPickupWins ==
  (/\ output.fn = "resolve"
   /\ ~output.ret.panic
   /\ \E i \in 1..Len(input.rules) :
        input.rules[i].action = "Pickup" /\ Matches(input.rules[i], input.trip))
  => output.ret.val = "Pickup"

Permuted(rs, p) == [i \in 1..Len(rs) |-> rs[p[i]]]

\* C3: every permutation of the rule list resolves to the same action.
C3_OrderIndependent ==
  output.fn = "resolve"
  => \A p \in Permutations(1..Len(input.rules)) :
       resolve_action(Permuted(input.rules, p), input.trip, build) = output.ret

\* C3 witness: a matching Alert rule ahead of a matching Pickup rule has
\* resolved to Pickup.
C3_Witness ==
  /\ output.fn = "resolve"
  /\ Len(input.rules) = 3
  /\ input.rules[1].action = "Alert"
  /\ input.rules[1].filters # <<>>
  /\ Matches(input.rules[1], input.trip)
  /\ input.rules[2].action = "Pickup"
  /\ Matches(input.rules[2], input.trip)
  /\ output.ret = Returned("Pickup")

(***************************************************************************)
(* SpecParse: the trip pattern on drawn clipboard texts                    *)
(***************************************************************************)
MaxLines == 2

RECURSIVE JoinWith(_, _)
JoinWith(parts, sep) ==
  IF Len(parts) = 0 THEN <<>>
  ELSE IF Len(parts) = 1 THEN parts[1]
  ELSE parts[1] \o sep \o JoinWith(Tail(parts), sep)

Words(tokens) == JoinWith(tokens, <<" ">>)

IdAB12 == <<"A", "B", "1", "2">>

\* "AB12 15JAN 3 0700 0730 1500 0800 0600 LHR CDG  "
LineScenario ==
  Words(<<IdAB12, TwoDigits(15) \o MonthNames[1], <<"3">>,
          ClockToken(7, 0, FALSE), ClockToken(7, 30, FALSE),
          ClockToken(15, 0, FALSE), ClockToken(8, 0, FALSE),
          ClockToken(6, 0, FALSE), LHR, CDG>>) \o <<" ", " ">>

\* "CD34 02FEB 1 13:15 14:00 09:45 0530 0530 X"
LinePremium ==
  Words(<<<<"C", "D", "3", "4">>, TwoDigits(2) \o MonthNames[2], <<"1">>,
          ClockToken(13, 15, TRUE), ClockToken(14, 0, TRUE),
          ClockToken(9, 45, TRUE), ClockToken(5, 30, FALSE),
          ClockToken(5, 30, FALSE), <<"X">>>>)

\* "EF56 31DEC 4 0545 0630 2310 1120 1200 AMS X"
LinePremiumLayover ==
  Words(<<<<"E", "F", "5", "6">>, TwoDigits(31) \o MonthNames[12], <<"4">>,
          ClockToken(5, 45, FALSE), ClockToken(6, 30, FALSE),
          ClockToken(23, 10, FALSE), ClockToken(11, 20, FALSE),
          ClockToken(12, 0, FALSE), AMS, <<"X">>>>)

\* "AB12 15JAN 3 0700" and "0730 1500 0800 0600 LHR ": one record broken
\* over two lines.
LineFirstHalf ==
  Words(<<IdAB12, TwoDigits(15) \o MonthNames[1], <<"3">>,
          ClockToken(7, 0, FALSE)>>)

LineSecondHalf ==
  Words(<<ClockToken(7, 30, FALSE), ClockToken(15, 0, FALSE),
          ClockToken(8, 0, FALSE), ClockToken(6, 0, FALSE), LHR>>) \o <<" ">>

\* "GH78 15JAN 3 0700 0730 1500 800 0600 LHR ": a block token of 3 characters.
LineBadBlock ==
  Words(<<<<"G", "H", "7", "8">>, TwoDigits(15) \o MonthNames[1], <<"3">>,
          ClockToken(7, 0, FALSE), ClockToken(7, 30, FALSE),
          ClockToken(15, 0, FALSE), <<"8", "0", "0">>,
          ClockToken(6, 0, FALSE), LHR>>) \o <<" ">>

\* Text of the page that is no trip.
LineHeader == Words(<<<<"O", "P", "E", "N">>, <<"T", "I", "M", "E">>>>)

LineFooter == <<"E", "N", "D">>

LineX == <<"X">>

LinePool ==
  {LineScenario, LinePremium, LinePremiumLayover, LineFirstHalf,
   LineSecondHalf, LineBadBlock, LineHeader, LineFooter, LineX, <<>>}

\* The clipboard text made of the lines, one per line of the page.
BlobOf(lines) == JoinWith(lines, <<"\n">>)

ParseInputs == [kind : {"blob"}, lines : SeqsUpTo(LinePool, MaxLines)]

InitParse ==
  /\ build \in Builds
  /\ input \in ParseInputs
  /\ output = NoCall
  /\ MonitorAtRest

CallParseTrips ==
  /\ input.kind = "blob"
  /\ output = NoCall
  /\ output' = [fn |-> "parse_trips", ret |-> parse_trips(BlobOf(input.lines))]
  /\ UNCHANGED <<build, input, monVars>>

NextParse == CallParseTrips

SpecParse == InitParse /\ [][NextParse]_vars

\* The line, taken alone, matches the trip pattern from its first to its
\* last character.
LineMatches(line) ==
  Len(line) > 0 /\ MatchAt(line, 1).ok /\ MatchAt(line, 1).end = Len(line) + 1

\* One Trip per matching line, in line order, each built from its own line.
RECURSIVE TripsLineByLine(_, _)
TripsLineByLine(lines, i) ==
  IF i > Len(lines) THEN <<>>
  ELSE IF LineMatches(lines[i])
  THEN <<TripOf(lines[i], MatchAt(lines[i], 1)).val>>
       \o TripsLineByLine(lines, i + 1)
  ELSE TripsLineByLine(lines, i + 1)

\* C8: the list of Trips produced from a text holds exactly one Trip per line
\* that matches the trip pattern, in line order, and none for any other
\* line; each Trip carries the fields of its own line, premium exactly when
\* the marker is present on it.
C8_OneTripPerMatchingLine ==
  (/\ output.fn = "parse_trips"
   /\ ~output.ret.panic
   /\ \A i \in 1..Len(input.lines) : input.lines[i] # LineBadBlock)
  => output.ret.val = TripsLineByLine(input.lines, 1)

\* The scenario line of the specification parses to the trip it names.
C8_ScenarioLine ==
  (output.fn = "parse_trips" /\ input.lines = <<LineScenario>>)
  => output.ret = Returned(<<TripAB12>>)

(***************************************************************************)
(* Spec: the monitor loop of bot_thread and the host's side of the two     *)
(* channels.  What the worker reads from the screen, the keyboard, the     *)
(* clipboard, the clock and the random generator is an input of the step   *)
(* that reads it.                                                          *)
(***************************************************************************)
MaxCmds == 2

MaxStatus == 2

\* Contents of the last-updated region ("blank" is the all-white image) and
\* of the loading-indicator region.
Images == {"blank", "t1", "t2"}

Icons == {"loaded", "loading"}

\* new_update_time before its first assignment.
Unset == "unset"

SliceMs == 50

\* rand::random_range(150..250): the shortest and the longest wait.
SleepSamples == {150, 249}

\* rand::random_range(lo..hi): the smallest and the largest interval.
RefreshSamples == {RefreshLo, RefreshHi - 1}

RuleAlertLHR == [name |-> "rule", filters |-> <<FInclude(LHR)>>, action |-> "Alert"]

RulePickupPrem == [name |-> "rule", filters |-> <<FIsPrem>>, action |-> "Pickup"]

RuleIgnoreAMS == [name |-> "rule", filters |-> <<FInclude(AMS)>>, action |-> "Ignore"]

\* The rule sets the operator starts the bot with.
RuleSets ==
  {<<RuleAlertLHR, RuleIgnoreAMS>>, <<RulePickupPrem, RuleAlertLHR>>}

\* The texts the clipboard may hold after the copy.
ClipTexts ==
  << BlobOf(<<LinePremium, LinePremiumLayover>>),
     BlobOf(<<LinePremiumLayover, LineScenario>>),
     BlobOf(<<LineScenario, LinePremiumLayover>>),
     BlobOf(<<LineScenario, LineBadBlock>>) >>

\* get_clipboard_string(): an error, or one of the texts.
ClipResults ==
  {[ok |-> FALSE]} \cup {[ok |-> TRUE, text |-> k] : k \in 1..Len(ClipTexts)}

MsgStart(r) == [type |-> "Start", rules |-> r]

MsgStop == [type |-> "Stop"]

MsgTripFound == [type |-> "TripFound"]

MsgCopyScreen == [type |-> "CopyScreen"]

MsgWaiting(secs) == [type |-> "Waiting", secs |-> secs]

MsgCopied(k) == [type |-> "Copied", text |-> k]

\* The state after construction, at "bot entering main loop": the two
\* reference images have been captured.
Init ==
  /\ build \in Builds
  /\ input = NoInput
  /\ output = NoCall
  /\ state = "Stopped"
  /\ rules = <<>>
  /\ pc = "top"
  /\ alive = TRUE
  /\ rx = <<>>
  /\ tx = <<>>
  /\ image_update_time \in Images
  /\ new_update_time = Unset
  /\ load_icon \in Icons
  /\ refresh_interval = RefreshLo
  /\ milis_to_sleep = 0
  /\ m_slept = 0
  /\ sink = "paused"
  /\ filtered = <<>>
  /\ picked = <<>>
  /\ host_state = "Stopped"
  /\ esc_held = FALSE
  /\ ref_before = Unset
  /\ late_start = FALSE
  /\ scrapes = 0

\* The command at the head of the channel is a Start, and the host has sent
\* a Stop after it: the Stop is the last command in the channel and the
\* host shows Stopped.
RevokedStartAtHead ==
  /\ Len(rx) > 1
  /\ Head(rx).type = "Start"
  /\ rx[Len(rx)].type = "Stop"
  /\ host_state = "Stopped"

\* A loop top whose Stop arm leaves the sound as it is.
LoopTopStopKeepsSound ==
  /\ pc = "top"
  /\ alive
  /\ LET got == Len(rx) > 0
         msg == Head(rx)
         st == IF got /\ msg.type = "Start" THEN "Running"
               ELSE IF got /\ msg.type = "Stop" THEN "Stopped"
               ELSE state
     IN /\ rx' = IF got THEN Tail(rx) ELSE rx
        /\ state' = st
        /\ rules' = IF got /\ msg.type = "Start" THEN msg.rules ELSE rules
        /\ IF got /\ msg.type = "Start"
           THEN \E icon \in Icons : load_icon' = icon
           ELSE UNCHANGED load_icon
        /\ sink' = sink
        /\ pc' = IF st = "Running" THEN "refresh" ELSE "top"
  /\ scrapes' = 0
  /\ picked' = <<>>
  /\ ref_before' = Unset
  /\ late_start' = RevokedStartAtHead
  /\ UNCHANGED <<filtered, build, pureVars, esc_held, alive, tx, image_update_time,
                 new_update_time, refresh_interval, milis_to_sleep, m_slept,
                 host_state>>

\* A loop top whose Start arm adds the supplied rules to the ones it has.
LoopTopStartAddsRules ==
  /\ pc = "top"
  /\ alive
  /\ LET got == Len(rx) > 0
         msg == Head(rx)
         st == IF got /\ msg.type = "Start" THEN "Running"
               ELSE IF got /\ msg.type = "Stop" THEN "Stopped"
               ELSE state
     IN /\ rx' = IF got THEN Tail(rx) ELSE rx
        /\ state' = st
        /\ rules' = IF got /\ msg.type = "Start" /\ Len(rules) < Len(msg.rules)
                    THEN rules \o msg.rules ELSE rules
        /\ IF got /\ msg.type = "Start"
           THEN \E icon \in Icons : load_icon' = icon
           ELSE UNCHANGED load_icon
        /\ sink' = IF got /\ msg.type = "Stop" THEN "paused" ELSE sink
        /\ pc' = IF st = "Running" THEN "refresh" ELSE "top"
  /\ scrapes' = 0
  /\ picked' = <<>>
  /\ ref_before' = Unset
  /\ late_start' = RevokedStartAtHead
  /\ UNCHANGED <<filtered, build, pureVars, esc_held, alive, tx, image_update_time,
                 new_update_time, refresh_interval, milis_to_sleep, m_slept,
                 host_state>>

\* A loop top whose Stop arm also drops the rules.
LoopTopStopDropsRules ==
  /\ pc = "top"
  /\ alive
  /\ LET got == Len(rx) > 0
         msg == Head(rx)
         st == IF got /\ msg.type = "Start" THEN "Running"
               ELSE IF got /\ msg.type = "Stop" THEN "Stopped"
               ELSE state
     IN /\ rx' = IF got THEN Tail(rx) ELSE rx
        /\ state' = st
        /\ rules' = IF got /\ msg.type = "Start" THEN msg.rules
                    ELSE IF got /\ msg.type = "Stop" THEN <<>>
                    ELSE rules
        /\ IF got /\ msg.type = "Start"
           THEN \E icon \in Icons : load_icon' = icon
           ELSE UNCHANGED load_icon
        /\ sink' = IF got /\ msg.type = "Stop" THEN "paused" ELSE sink
        /\ pc' = IF st = "Running" THEN "refresh" ELSE "top"
  /\ scrapes' = 0
  /\ picked' = <<>>
  /\ ref_before' = Unset
  /\ late_start' = RevokedStartAtHead
  /\ UNCHANGED <<filtered, build, pureVars, esc_held, alive, tx, image_update_time,
                 new_update_time, refresh_interval, milis_to_sleep, m_slept,
                 host_state>>

\* A loop top that starts over only when the worker is Stopped.
LoopTopSkipsStoppedOnly ==
  /\ pc = "top"
  /\ alive
  /\ LET got == Len(rx) > 0
         msg == Head(rx)
         st == IF got /\ msg.type = "Start" THEN "Running"
               ELSE IF got /\ msg.type = "Stop" THEN "Stopped"
               ELSE state
     IN /\ rx' = IF got THEN Tail(rx) ELSE rx
        /\ state' = st
        /\ rules' = IF got /\ msg.type = "Start" THEN msg.rules ELSE rules
        /\ IF got /\ msg.type = "Start"
           THEN \E icon \in Icons : load_icon' = icon
           ELSE UNCHANGED load_icon
        /\ sink' = IF got /\ msg.type = "Stop" THEN "paused" ELSE sink
        /\ pc' = IF st = "Stopped" THEN "top" ELSE "refresh"
  /\ scrapes' = 0
  /\ picked' = <<>>
  /\ ref_before' = Unset
  /\ late_start' = RevokedStartAtHead
  /\ UNCHANGED <<filtered, build, pureVars, esc_held, alive, tx, image_update_time,
                 new_update_time, refresh_interval, milis_to_sleep, m_slept,
                 host_state>>

\* The top of 'main: at most one command is taken (a Start captures the
\* loading-indicator region again), then a worker that is not Running
\* sleeps and starts over.
LoopTop ==
  /\ pc = "top"
  /\ alive
  /\ LET got == Len(rx) > 0
         msg == Head(rx)
         st == IF got /\ msg.type = "Start" THEN "Running"
               ELSE IF got /\ msg.type = "Stop" THEN "Stopped"
               ELSE state
     IN /\ rx' = IF got THEN Tail(rx) ELSE rx
        /\ state' = st
        /\ rules' = IF got /\ msg.type = "Start" THEN msg.rules ELSE rules
        /\ IF got /\ msg.type = "Start"
           THEN \E icon \in Icons : load_icon' = icon
           ELSE UNCHANGED load_icon
        /\ sink' = IF got /\ msg.type = "Stop" THEN "paused" ELSE sink
        /\ pc' = IF st = "Running" THEN "refresh" ELSE "top"
  /\ scrapes' = 0
  /\ picked' = <<>>
  /\ ref_before' = Unset
  /\ late_start' = RevokedStartAtHead
  /\ UNCHANGED <<filtered, build, pureVars, esc_held, alive, tx, image_update_time,
                 new_update_time, refresh_interval, milis_to_sleep, m_slept,
                 host_state>>

\* A refresh that draws from the closed range lo..=hi.
RefreshPageInclusive ==
  /\ pc = "refresh"
  /\ Len(tx) < MaxStatus
  /\ \E secs \in {RefreshLo, RefreshHi} :
       /\ refresh_interval' = secs
       /\ tx' = Append(tx, MsgWaiting(secs))
  /\ pc' = "wait_load"
  /\ UNCHANGED <<filtered, build, pureVars, esc_held, late_start, state, rules, alive, rx, image_update_time,
                 new_update_time, load_icon, milis_to_sleep, m_slept, sink,
                 picked, host_state, ref_before, scrapes>>

\* if last_refresh.elapsed() > refresh_interval: draw the next interval,
\* announce it and press ctrl-r.  Elapsed time is not modelled: the test
\* may come out either way.
RefreshPage ==
  /\ pc = "refresh"
  /\ Len(tx) < MaxStatus
  /\ \E secs \in RefreshSamples :
       /\ refresh_interval' = secs
       /\ tx' = Append(tx, MsgWaiting(secs))
  /\ pc' = "wait_load"
  /\ UNCHANGED <<filtered, build, pureVars, esc_held, late_start, state, rules, alive, rx, image_update_time,
                 new_update_time, load_icon, milis_to_sleep, m_slept, sink,
                 picked, host_state, ref_before, scrapes>>

NoRefresh ==
  /\ pc = "refresh"
  /\ pc' = "capture"
  /\ UNCHANGED <<filtered, build, pureVars, esc_held, late_start, state, rules, alive, rx, tx,
                 image_update_time, new_update_time, load_icon,
                 refresh_interval, milis_to_sleep, m_slept, sink, picked,
                 host_state, ref_before, scrapes>>

\* GetKeyState(27): down or up, and down while Escape is kept down.
KeyReads == IF esc_held THEN {TRUE} ELSE BOOLEAN

\* A page-load poll that tests the Escape key the way the idle wait does.
WaitLoadReadsKey ==
  /\ pc = "wait_load"
  /\ \E esc \in KeyReads :
       IF esc
       THEN /\ Len(tx) < MaxStatus
            /\ state' = "Stopped"
            /\ tx' = Append(tx, MsgStop)
            /\ pc' = "top"
       ELSE /\ \E icon \in Icons :
                 pc' = IF icon # load_icon THEN "wait_load" ELSE "wait_blank"
            /\ UNCHANGED <<state, tx>>
  /\ UNCHANGED <<filtered, build, pureVars, esc_held, late_start, rules, alive, rx,
                 image_update_time, new_update_time, load_icon,
                 refresh_interval, milis_to_sleep, m_slept, sink, picked,
                 host_state, ref_before, scrapes>>

\* while capture(refresh region) != load_icon { sleep }
WaitLoad ==
  /\ pc = "wait_load"
  /\ \E icon \in Icons :
       pc' = IF icon # load_icon THEN "wait_load" ELSE "wait_blank"
  /\ UNCHANGED <<filtered, build, pureVars, esc_held, late_start, state, rules, alive, rx, tx,
                 image_update_time, new_update_time, load_icon,
                 refresh_interval, milis_to_sleep, m_slept, sink, picked,
                 host_state, ref_before, scrapes>>

\* new_update_time = capture; while it is the blank image, capture again;
\* then click into the page.
WaitBlank ==
  /\ pc = "wait_blank"
  /\ \E img \in Images :
       /\ new_update_time' = img
       /\ pc' = IF img = "blank" THEN "wait_blank" ELSE "capture"
  /\ UNCHANGED <<filtered, build, pureVars, esc_held, late_start, state, rules, alive, rx, tx,
                 image_update_time, load_icon, refresh_interval,
                 milis_to_sleep, m_slept, sink, picked, host_state, ref_before,
                 scrapes>>

\* A capture step that copies whenever it runs and never renews the cached
\* image.
CaptureAlwaysCopy ==
  /\ pc = "capture"
  /\ Len(tx) < MaxStatus
  /\ \E img \in Images : new_update_time' = img
  /\ ref_before' = image_update_time
  /\ tx' = Append(tx, MsgCopyScreen)
  /\ scrapes' = scrapes + 1
  /\ pc' = "clipboard"
  /\ UNCHANGED <<image_update_time, milis_to_sleep, m_slept>>
  /\ late_start' = FALSE
  /\ UNCHANGED <<filtered, build, pureVars, esc_held, state, rules, alive, rx, load_icon,
                 refresh_interval, sink, picked, host_state>>

\* The change detection: capture the last-updated region; when it differs
\* from the cached image, cache it, announce the copy and press ctrl-a,
\* ctrl-c; otherwise go on to the idle wait.
Capture ==
  /\ pc = "capture"
  /\ ref_before' = image_update_time
  /\ \E img \in Images :
       /\ new_update_time' = img
       /\ IF img # image_update_time
          THEN /\ Len(tx) < MaxStatus
               /\ image_update_time' = img
               /\ tx' = Append(tx, MsgCopyScreen)
               /\ scrapes' = scrapes + 1
               /\ pc' = "clipboard"
               /\ UNCHANGED <<milis_to_sleep, m_slept>>
          ELSE /\ pc' = "idle"
               /\ milis_to_sleep' \in SleepSamples
               /\ m_slept' = 0
               /\ UNCHANGED <<image_update_time, tx, scrapes>>
  /\ late_start' = FALSE
  /\ UNCHANGED <<filtered, build, pureVars, esc_held, state, rules, alive, rx, load_icon,
                 refresh_interval, sink, picked, host_state>>

\* One entry of the filtered list put in front of the entries after it.
FilteredCons(a, id, rest) ==
  IF a.panic \/ rest.panic THEN Panic
  ELSE Returned(<<[action |-> a.val, id |-> id]>> \o rest.val)

\* (action, id) of every trip: the priority fold over the rule set.
RECURSIVE FilteredTrips(_, _, _, _)
FilteredTrips(trips, i, rs, b) ==
  IF i > Len(trips) THEN Returned(<<>>)
  ELSE FilteredCons(resolve_action(rs, trips[i], b), trips[i].id,
                    FilteredTrips(trips, i + 1, rs, b))

\* The text parsed and every trip of it resolved.
FilterParsed(trips, rs, b) ==
  IF trips.panic THEN Panic ELSE FilteredTrips(trips.val, 1, rs, b)

\* A scrape that forgets the cached image when the clipboard cannot be
\* read, so that the next capture differs from it.
ReadClipboardForgets ==
  /\ pc = "clipboard"
  /\ \E clip \in ClipResults :
       IF ~clip.ok
       THEN /\ pc' = "idle"
            /\ milis_to_sleep' \in SleepSamples
            /\ m_slept' = 0
            /\ image_update_time' = "blank"
            /\ UNCHANGED <<tx, alive, filtered>>
       ELSE /\ Len(tx) < MaxStatus
            /\ tx' = Append(tx, MsgCopied(clip.text))
            /\ UNCHANGED <<milis_to_sleep, m_slept, image_update_time>>
            /\ \E res \in {FilterParsed(parse_trips(ClipTexts[clip.text]),
                                         rules, build)} :
                 IF res.panic
                 THEN /\ alive' = FALSE
                      /\ pc' = "dead"
                      /\ UNCHANGED filtered
                 ELSE /\ filtered' = res.val
                      /\ pc' = "dispatch"
                      /\ UNCHANGED alive
  /\ picked' = <<>>
  /\ UNCHANGED <<build, pureVars, esc_held, late_start, state, rules, rx,
                 new_update_time, load_icon, refresh_interval, sink,
                 host_state, ref_before, scrapes>>

\* A scrape that hands the trips to the dispatch loop without announcing
\* the text it read.
ReadClipboardSilent ==
  /\ pc = "clipboard"
  /\ \E clip \in ClipResults :
       IF ~clip.ok
       THEN /\ pc' = "idle"
            /\ milis_to_sleep' \in SleepSamples
            /\ m_slept' = 0
            /\ UNCHANGED <<tx, alive, filtered>>
       ELSE /\ UNCHANGED <<tx, milis_to_sleep, m_slept>>
            /\ \E res \in {FilterParsed(parse_trips(ClipTexts[clip.text]),
                                         rules, build)} :
                 IF res.panic
                 THEN /\ alive' = FALSE
                      /\ pc' = "dead"
                      /\ UNCHANGED filtered
                 ELSE /\ filtered' = res.val
                      /\ pc' = "dispatch"
                      /\ UNCHANGED alive
  /\ picked' = <<>>
  /\ UNCHANGED <<build, pureVars, esc_held, late_start, state, rules, rx, image_update_time,
                 new_update_time, load_icon, refresh_interval, sink,
                 host_state, ref_before, scrapes>>

\* The scrape after the copy: read the clipboard; on an error go on to the
\* idle wait; otherwise announce the text, parse it and resolve every trip.
\* A failed unwrap or an overflow aborts the thread.
ReadClipboard ==
  /\ pc = "clipboard"
  /\ \E clip \in ClipResults :
       IF ~clip.ok
       THEN /\ pc' = "idle"
            /\ milis_to_sleep' \in SleepSamples
            /\ m_slept' = 0
            /\ UNCHANGED <<tx, alive, filtered>>
       ELSE /\ Len(tx) < MaxStatus
            /\ tx' = Append(tx, MsgCopied(clip.text))
            /\ UNCHANGED <<milis_to_sleep, m_slept>>
            /\ \E res \in {FilterParsed(parse_trips(ClipTexts[clip.text]),
                                         rules, build)} :
                 IF res.panic
                 THEN /\ alive' = FALSE
                      /\ pc' = "dead"
                      /\ UNCHANGED filtered
                 ELSE /\ filtered' = res.val
                      /\ pc' = "dispatch"
                      /\ UNCHANGED alive
  /\ picked' = <<>>
  /\ UNCHANGED <<build, pureVars, esc_held, late_start, state, rules, rx, image_update_time,
                 new_update_time, load_icon, refresh_interval, sink,
                 host_state, ref_before, scrapes>>

\* A dispatch loop that tests the rank of the action: whatever ranks at
\* least as high as Alert, and is no Pickup, alerts.
DispatchTripByRank ==
  /\ pc = "dispatch"
  /\ filtered # <<>>
  /\ LET t == Head(filtered)
     IN IF t.action = "Pickup"
        THEN /\ Len(tx) < MaxStatus
             /\ picked' = Append(picked, t.id)
             /\ sink' = "playing"
             /\ state' = "Stopped"
             /\ tx' = Append(tx, MsgStop)
        ELSE IF ActionCode(t.action) >= ActionCode("Alert")
        THEN /\ Len(tx) < MaxStatus
             /\ sink' = "playing"
             /\ state' = "Alerting"
             /\ tx' = Append(tx, MsgTripFound)
             /\ UNCHANGED picked
        ELSE UNCHANGED <<picked, sink, state, tx>>
  /\ filtered' = Tail(filtered)
  /\ UNCHANGED <<build, pureVars, esc_held, late_start, rules, pc, alive, rx, image_update_time,
                 new_update_time, load_icon, refresh_interval, milis_to_sleep,
                 m_slept, host_state, ref_before, scrapes>>

\* One turn of the loop "alert if any match": a Pickup runs the pickup keys,
\* plays the sound, stops the worker and reports Stop; an Alert plays the
\* sound, latches Alerting and reports TripFound; anything else is passed
\* over.  The loop never looks at the worker's state.
DispatchTrip ==
  /\ pc = "dispatch"
  /\ filtered # <<>>
  /\ LET t == Head(filtered)
     IN IF t.action = "Pickup"
        THEN /\ Len(tx) < MaxStatus
             /\ picked' = Append(picked, t.id)
             /\ sink' = "playing"
             /\ state' = "Stopped"
             /\ tx' = Append(tx, MsgStop)
        ELSE IF t.action = "Alert"
        THEN /\ Len(tx) < MaxStatus
             /\ sink' = "playing"
             /\ state' = "Alerting"
             /\ tx' = Append(tx, MsgTripFound)
             /\ UNCHANGED picked
        ELSE UNCHANGED <<picked, sink, state, tx>>
  /\ filtered' = Tail(filtered)
  /\ UNCHANGED <<build, pureVars, esc_held, late_start, rules, pc, alive, rx, image_update_time,
                 new_update_time, load_icon, refresh_interval, milis_to_sleep,
                 m_slept, host_state, ref_before, scrapes>>

\* The loop is through: draw the length of the idle wait.
DispatchDone ==
  /\ pc = "dispatch"
  /\ filtered = <<>>
  /\ pc' = "idle"
  /\ milis_to_sleep' \in SleepSamples
  /\ m_slept' = 0
  /\ UNCHANGED <<build, pureVars, esc_held, late_start, state, rules, alive, rx, tx,
                 image_update_time, new_update_time, load_icon,
                 refresh_interval, sink, filtered, picked, host_state,
                 ref_before, scrapes>>

\* One slice of the idle wait: with Escape down (GetKeyState) the worker
\* stops and starts over; otherwise it sleeps one slice, and the wait ends
\* when m has reached milis_to_sleep.
IdleSlice ==
  /\ pc = "idle"
  /\ \E esc \in KeyReads :
       IF esc
       THEN /\ Len(tx) < MaxStatus
            /\ state' = "Stopped"
            /\ tx' = Append(tx, MsgStop)
            /\ pc' = "top"
            /\ milis_to_sleep' = 0
            /\ m_slept' = 0
       ELSE /\ IF m_slept + SliceMs < milis_to_sleep
               THEN /\ m_slept' = m_slept + SliceMs
                    /\ UNCHANGED <<pc, milis_to_sleep>>
               ELSE /\ pc' = "top"
                    /\ milis_to_sleep' = 0
                    /\ m_slept' = 0
            /\ UNCHANGED <<state, tx>>
  /\ UNCHANGED <<filtered, build, pureVars, esc_held, late_start, rules, alive, rx, image_update_time,
                 new_update_time, load_icon, refresh_interval, sink, picked,
                 host_state, ref_before, scrapes>>

\* App::update(Message::Start): the Start button is offered unless the host
\* is Running.  A send to a worker that has aborted fails, and the unwrap
\* takes the host down.
HostStart ==
  /\ host_state = "Stopped"
  /\ IF alive
     THEN /\ Len(rx) < MaxCmds
          /\ \E r \in RuleSets : rx' = Append(rx, MsgStart(r))
          /\ host_state' = "Running"
     ELSE /\ host_state' = "Crashed"
          /\ UNCHANGED rx
  /\ UNCHANGED <<filtered, build, pureVars, esc_held, late_start, state, rules, pc, alive, tx,
                 image_update_time, new_update_time, load_icon,
                 refresh_interval, milis_to_sleep, m_slept, sink, picked,
                 ref_before, scrapes>>

\* App::update(Message::Stop): the Stop button is offered unless the host
\* is Stopped.
HostStop ==
  /\ host_state = "Running"
  /\ IF alive
     THEN /\ Len(rx) < MaxCmds
          /\ rx' = Append(rx, MsgStop)
          /\ host_state' = "Stopped"
     ELSE /\ host_state' = "Crashed"
          /\ UNCHANGED rx
  /\ UNCHANGED <<filtered, build, pureVars, esc_held, late_start, state, rules, pc, alive, tx,
                 image_update_time, new_update_time, load_icon,
                 refresh_interval, milis_to_sleep, m_slept, sink, picked,
                 ref_before, scrapes>>

\* A Tick that takes the status event off the channel and does not feed it
\* back to update.
HostTickDropsEvent ==
  /\ host_state # "Crashed"
  /\ Len(tx) > 0
  /\ tx' = Tail(tx)
  /\ UNCHANGED <<rx, host_state>>
  /\ UNCHANGED <<filtered, build, pureVars, esc_held, late_start, state, rules, pc, alive, image_update_time,
                 new_update_time, load_icon, refresh_interval, milis_to_sleep,
                 m_slept, sink, picked, ref_before, scrapes>>

\* App::update(Message::Tick): take one status event and feed it back to
\* update; a Stop sets the host to Stopped and is sent on to the worker.
HostTick ==
  /\ host_state # "Crashed"
  /\ Len(tx) > 0
  /\ tx' = Tail(tx)
  /\ IF Head(tx).type = "Stop"
     THEN IF alive
          THEN /\ Len(rx) < MaxCmds
               /\ rx' = Append(rx, MsgStop)
               /\ host_state' = "Stopped"
          ELSE /\ host_state' = "Crashed"
               /\ UNCHANGED rx
     ELSE UNCHANGED <<rx, host_state>>
  /\ UNCHANGED <<filtered, build, pureVars, esc_held, late_start, state, rules, pc, alive, image_update_time,
                 new_update_time, load_icon, refresh_interval, milis_to_sleep,
                 m_slept, sink, picked, ref_before, scrapes>>

Next ==
  \/ LoopTop
  \/ RefreshPage
  \/ NoRefresh
  \/ WaitLoad
  \/ WaitBlank
  \/ Capture
  \/ ReadClipboard
  \/ DispatchTrip
  \/ DispatchDone
  \/ IdleSlice
  \/ HostStart
  \/ HostStop
  \/ HostTick

Spec == Init /\ [][Next]_vars

\* C10: in every Running iteration a scrape (the copy keys and the clipboard
\* read) is attempted exactly when the captured last-updated region differs
\* from the cached reference image, at most once, and the cached reference
\* is then the new capture; so a capture equal to the one before it
\* triggers no scrape and a differing one triggers exactly one.
C10_ScrapeIffChanged ==
  /\ scrapes \in {0, 1}
  /\ pc \in {"clipboard", "dispatch", "idle", "dead"}
     => /\ scrapes = 1 <=> new_update_time # ref_before
        /\ image_update_time = new_update_time
  /\ pc = "clipboard" => scrapes = 1
  /\ pc \in {"refresh", "wait_load", "wait_blank", "capture"} => scrapes = 0

\* C10 witness: the region changed from t1 to t2, the worker has copied once
\* and now reads the clipboard with t2 cached.
C10_Witness ==
  /\ pc = "clipboard"
  /\ state = "Running"
  /\ ref_before = "t1"
  /\ new_update_time = "t2"
  /\ image_update_time = "t2"
  /\ scrapes = 1

\* C11: a Stop command that waits in the command channel while the Running
\* worker is inside its idle wait is observed at the wait slice: the slice
\* the worker takes next leaves it Stopped.
C11_StopSeenAtWaitSlice ==
  [][(/\ pc = "idle"
      /\ state = "Running"
      /\ rx # <<>>
      /\ Head(rx).type = "Stop"
      /\ <<pc, m_slept>>' # <<pc, m_slept>>)
     => state' = "Stopped"]_vars

\* The step is LoopTop taking a Stop command.
TakesStop ==
  /\ pc = "top"
  /\ rx # <<>>
  /\ Head(rx).type = "Stop"
  /\ rx' = Tail(rx)

\* The step is LoopTop taking a Start command.
TakesStart ==
  /\ pc = "top"
  /\ rx # <<>>
  /\ Head(rx).type = "Start"
  /\ rx' = Tail(rx)

\* The step is the idle wait finding the Escape key down.
DetectsHotkey ==
  /\ pc = "idle"
  /\ pc' = "top"
  /\ tx' = Append(tx, MsgStop)

\* C12: Alerting is latched: a worker in Alerting stays in Alerting, and
\* starts no refresh, capture or scrape, until it takes a Stop command (the
\* cancellation hotkey, which the idle wait that ends the alerting scrape
\* still tests, is left aside).
C12_AlertingLatched ==
  [][state = "Alerting"
     => \/ state' = "Alerting" /\ pc' \in {"dispatch", "idle", "top"}
        \/ TakesStop /\ state' = "Stopped"
        \/ DetectsHotkey /\ state' = "Stopped"]_vars

\* C13: when a scrape has resolved a trip to Pickup (the pickup keys were
\* run for its id), the worker is Stopped when the dispatch loop of that
\* scrape is through.
C13_PickupEndsStopped ==
  (pc = "dispatch" /\ filtered = <<>> /\ picked # <<>>) => state = "Stopped"

\* The step is a turn of the dispatch loop that triggers something: the
\* pickup keys, the sound, a status event or a change of state.
Triggers ==
  /\ pc = "dispatch"
  /\ filtered' # filtered
  /\ \/ picked' # picked
     \/ sink' # sink
     \/ state' # state
     \/ Len(tx') > Len(tx)

\* C14: within one scrape cycle at most one trip is dispatched: a trip
\* triggers something only while the worker is still Running, so none does
\* once an earlier trip of the text has taken the state out of Running.
C14_OneDispatchPerCycle ==
  [][Triggers => state = "Running"]_vars

\* C15: a worker that takes a Stop command, in Running or in Alerting, is
\* Stopped with the sound paused; and a Stopped worker at the loop top stays
\* there, Stopped, starting no refresh, capture, scrape or dispatch and
\* sending nothing, until it takes a Start command.
C15_StopHalts ==
  [][/\ TakesStop => state' = "Stopped" /\ sink' = "paused" /\ pc' = "top"
     /\ (pc = "top" /\ state = "Stopped")
        => \/ TakesStart
           \/ /\ pc' = "top"
              /\ state' = "Stopped"
              /\ image_update_time' = image_update_time
              /\ filtered' = filtered
              /\ Len(tx') <= Len(tx)]_vars

\* C15 witness: the worker alerted (TripFound is the one event still in the
\* status channel), then took a Stop command in Alerting: it is Stopped at
\* the loop top with the sound paused.
C15_Witness ==
  /\ pc = "top"
  /\ state = "Stopped"
  /\ sink = "paused"
  /\ tx = <<MsgTripFound>>
  /\ rx = <<>>

\* C16: the worker starts in Stopped; taking Start(rules) makes it Running
\* with exactly the supplied rules and captures the loading-indicator region
\* again (whatever the region shows then becomes the reference); and the
\* worker becomes Running only by taking a Start.
C16_StartAdopts ==
  /\ state = "Stopped"
  /\ [][/\ TakesStart
           => /\ state' = "Running"
              /\ rules' = Head(rx).rules
              /\ pc' = "refresh"
              /\ \A icon \in Icons : ENABLED (LoopTop /\ load_icon' = icon)
        /\ (state # "Running" /\ state' = "Running") => TakesStart]_vars

\* C16 witness: the first text was scraped under the Alert/Ignore set (its
\* Copied event is not followed by a Stop event), and the worker has since
\* taken a Start with the Pickup/Alert set: it is Running with that set.
C16_Witness ==
  /\ pc = "refresh"
  /\ state = "Running"
  /\ rules = <<RulePickupPrem, RuleAlertLHR>>
  /\ tx = <<MsgCopied(1)>>
  /\ scrapes = 0

(***************************************************************************)
(* SpecHeld: the monitor with an operator who at some moment presses       *)
(* Escape and keeps it down.  The worker thread keeps running, and the     *)
(* host's Tick subscription keeps firing; the operator's buttons are under *)
(* no obligation.                                                          *)
(***************************************************************************)
HoldEscape ==
  /\ ~esc_held
  /\ esc_held' = TRUE
  /\ UNCHANGED <<build, pureVars, late_start, state, rules, pc, alive, rx, tx,
                 image_update_time, new_update_time, load_icon,
                 refresh_interval, milis_to_sleep, m_slept, sink, filtered,
                 picked, host_state, ref_before, scrapes>>

\* The steps of the worker thread.
Worker ==
  \/ LoopTop
  \/ RefreshPage
  \/ NoRefresh
  \/ WaitLoad
  \/ WaitBlank
  \/ Capture
  \/ ReadClipboard
  \/ DispatchTrip
  \/ DispatchDone
  \/ IdleSlice

NextHeld == Next \/ HoldEscape

SpecHeld ==
  Init /\ [][NextHeld]_vars /\ WF_vars(Worker) /\ WF_vars(HostTick)

\* A channel holds as many messages as the model lets it hold.
ChannelAtBound == Len(rx) >= MaxCmds \/ Len(tx) >= MaxStatus

\* C17: hotkey cancellation works from any state: once Escape is pressed and
\* kept down, a worker that is in Alerting (and has not aborted) eventually
\* is Stopped.  Runs in which a channel reaches the model's bound are left
\* aside.
C17_HeldHotkeyStopsAlerting ==
  (esc_held /\ alive /\ state = "Alerting")
    ~> (state = "Stopped" \/ ChannelAtBound)

\* C18: a clipboard read that fails is not fatal: the scrape sends nothing
\* after its CopyScreen (no Copied), dispatches nothing, and leaves the
\* worker alive and Running with its rules; the worker goes on to the idle
\* wait, and the cached image is the capture that started the scrape, so
\* that the same content starts no second scrape.
C18_ClipboardFailureGoesOn ==
  [][(pc = "clipboard" /\ pc' = "idle")
     => /\ tx' = tx
        /\ state = "Running" /\ state' = "Running"
        /\ rules' = rules
        /\ alive'
        /\ sink' = sink
        /\ filtered' = filtered
        /\ picked' = <<>>
        /\ scrapes' = 1
        /\ image_update_time' = new_update_time']_vars

\* C18 witness: the worker is in the idle wait of an iteration that
\* scraped, and CopyScreen is the only event it has sent: the read failed.
C18_Witness ==
  /\ pc = "idle"
  /\ state = "Running"
  /\ alive
  /\ scrapes = 1
  /\ tx = <<MsgCopyScreen>>

\* Some line of the text matches the trip pattern and has a field that
\* fails its parser.
FieldFails(t) ==
  \E i \in 1..Len(captures_iter(t, 1)) : TripOf(t, captures_iter(t, 1)[i]).panic

\* The text the scrape step has just announced.
CopiedText == ClipTexts[tx'[Len(tx')].text]

\* C19: a field that fails its parser is fatal to the whole scrape cycle:
\* when the text read has such a line, the worker aborts in that step, and
\* no trip of the text, the well-formed ones ahead of the bad line included,
\* is handed to the dispatch loop or changes the state, the sound or the
\* status channel; an aborted worker takes no further step.
C19_FieldFailureAborts ==
  [][/\ (pc = "clipboard" /\ pc' \notin {"clipboard", "idle"}
         /\ FieldFails(CopiedText))
        => /\ pc' = "dead"
           /\ ~alive'
           /\ tx' = Append(tx, tx'[Len(tx')])
           /\ state' = state
           /\ sink' = sink
           /\ filtered' = filtered
           /\ picked' = <<>>
     /\ pc = "dead"
        => /\ pc' = "dead"
           /\ ~alive'
           /\ state' = state
           /\ sink' = sink
           /\ Len(tx') <= Len(tx)
           /\ Len(rx') >= Len(rx)]_vars

\* C19 witness: the text whose second line has a three-character block
\* token (its first line is a well-formed trip that resolves to Alert) was
\* read, and the worker has aborted, still Running and without a sound.
C19_Witness ==
  /\ pc = "dead"
  /\ ~alive
  /\ state = "Running"
  /\ sink = "paused"
  /\ tx # <<>>
  /\ tx[Len(tx)] = MsgCopied(4)

\* C20: an error in the worker never takes the host down: also after the
\* worker has aborted, every operation of the host completes.
C20_HostSurvivesWorker ==
  ~alive => host_state # "Crashed"

(***************************************************************************)
(* SpecPoll: the monitor with the worker thread and the host's Tick        *)
(* subscription kept running.  The two polls after a refresh end when the  *)
(* screen shows what they wait for, which the thread has no say in, so     *)
(* they are under no obligation to end.                                    *)
(***************************************************************************)
WorkerOutsidePoll ==
  \/ LoopTop
  \/ RefreshPage
  \/ NoRefresh
  \/ Capture
  \/ ReadClipboard
  \/ DispatchTrip
  \/ DispatchDone
  \/ IdleSlice

SpecPoll ==
  Init /\ [][Next]_vars /\ WF_vars(WorkerOutsidePoll) /\ WF_vars(HostTick)

\* C21: every command the host sends is eventually taken by the worker at
\* the top of a loop iteration; in particular a Stop that has reached the
\* head of the command channel is eventually followed by the worker being
\* Stopped.  Runs in which the worker aborts or a channel reaches the
\* model's bound are left aside.
C21_StopEventuallyTaken ==
  (alive /\ rx # <<>> /\ Head(rx).type = "Stop")
    ~> (state = "Stopped" \/ ~alive \/ ChannelAtBound)

\* The step appends one status event of the given type to the status
\* channel.
Sends(type) ==
  /\ Len(tx') = Len(tx) + 1
  /\ SubSeq(tx', 1, Len(tx)) = tx
  /\ tx'[Len(tx')].type = type

\* C22: status events keep their order.  Within one iteration CopyScreen is
\* sent first (by the capture that starts the scrape), Copied next (by the
\* clipboard read of that scrape, and the dispatch loop is entered by that
\* read alone), and TripFound or a pickup's Stop only inside the dispatch
\* loop; the status channel is a FIFO: the worker appends at its end and the
\* host takes from its head.
C22_StatusOrder ==
  [][/\ Sends("CopyScreen") <=> (pc = "capture" /\ pc' = "clipboard")
     /\ Sends("CopyScreen") => (scrapes = 0 /\ scrapes' = 1)
     /\ Sends("Copied") <=> (pc = "clipboard" /\ pc' \in {"dispatch", "dead"})
     /\ Sends("Copied") => scrapes = 1
     /\ pc' = "clipboard" => pc \in {"capture", "clipboard"}
     /\ pc' = "dispatch" => pc \in {"clipboard", "dispatch"}
     /\ Sends("TripFound") => (pc = "dispatch" /\ scrapes = 1)
     /\ (Sends("Stop") /\ pc # "idle") => (pc = "dispatch" /\ scrapes = 1)
     /\ \/ tx' = tx
        \/ \E type \in {"CopyScreen", "Copied", "TripFound", "Stop", "Waiting"} :
             Sends(type)
        \/ tx # <<>> /\ tx' = Tail(tx) /\ pc' = pc]_vars

\* C22 witness: the host has taken the CopyScreen of this scrape; its Copied
\* and the TripFound of its first trip wait in the status channel, in that
\* order, and the dispatch loop has not finished.
C22_Witness ==
  /\ pc = "dispatch"
  /\ scrapes = 1
  /\ tx = <<MsgCopied(3), MsgTripFound>>
  /\ state = "Alerting"

\* C23: the worker's rule set is read-only during a run: it changes only in
\* the step that takes a Start command, and is then the set that Start
\* carries; taking a Stop, the hotkey, refresh, capture, scrape and dispatch
\* leave it as it is, and so does everything the host does: a Start that
\* carries other rules changes nothing until the worker takes it.
C23_RulesReadOnly ==
  [][/\ rules' # rules => TakesStart
     /\ TakesStart => rules' = Head(rx).rules
     /\ (rx' # rx /\ ~TakesStart /\ ~TakesStop) => rules' = rules]_vars

\* C23 witness: the worker runs the dispatch loop under the Alert/Ignore set
\* while a Stop and a Start with the Pickup/Alert set wait in the command
\* channel.
C23_Witness ==
  /\ pc = "dispatch"
  /\ filtered # <<>>
  /\ rules = <<RuleAlertLHR, RuleIgnoreAMS>>
  /\ rx = <<MsgStop, MsgStart(<<RulePickupPrem, RuleAlertLHR>>)>>

(***************************************************************************)
(* SpecCompare: Filter::eval on every comparison filter over sample        *)
(* values and the sample trips                                             *)
(***************************************************************************)
TimeValues ==
  {Time(0, 0), Time(7, 0), Time(7, 30), Time(12, 30), Time(19, 30),
   Time(23, 45)}

DateValues ==
  {Date(DefaultYear, 1, 15), Date(DefaultYear, 1, 16), Date(DefaultYear, 2, 2),
   Date(DefaultYear, 12, 31), Date(DefaultYear + 1, 1, 1)}

DayValues == {0, 1, 3, 4, 255}

IdValues == {t.id : t \in TripSamples} \cup {<<"A", "B", "1">>}

CompareFilters ==
  [kind : {"TimeDiff"}, lhs : Fields, rhs : Fields, op : Ops, val : TimeValues]
  \cup [kind : {"FieldIs"}, field : Fields, op : Ops, val : TimeValues]
  \cup [kind : {"DateIs"}, op : Ops, val : DateValues]
  \cup [kind : {"NumDays"}, op : Ops, val : DayValues]
  \cup {FIsPrem}
  \cup [kind : {"IncludeId"}, val : IdValues]

InitCompare ==
  /\ build \in Builds
  /\ input \in [kind : {"filter"}, trip : TripSamples, filter : CompareFilters]
  /\ output = NoCall
  /\ MonitorAtRest

SpecCompare == InitCompare /\ [][CallFilterEval]_vars

\* The operator of an Op on two integers.
OpOn(op, x, y) ==
  CASE op = "Eq" -> x = y
    [] op = "NEq" -> x # y
    [] op = "Lt" -> x < y
    [] op = "LtEq" -> x <= y
    [] op = "Gt" -> x > y
    [] op = "GtEq" -> x >= y

\* A TimeValue's place in the (hours, then minutes) order, and a DateValue's
\* place in the (year, month, day) order.
TimeRank(t) == t.hours * 256 + t.minutes

DateRank(d) == (d.year * 16 + d.month) * 256 + d.day

\* C24: comparison filters implement their operator faithfully: FieldIs(f,
\* op, v) is (trip.get(f) op v) in the (hours, minutes) order, DateIs(op, v)
\* is (trip.date op v) in the (year, month, day) order, NumDays(op, n) is
\* (trip.days op n), TimeDiff(a, b, op, v) is ((trip.get(a) - trip.get(b)) op
\* v) with the TimeValue subtraction (and yields nothing exactly when that
\* subtraction aborts), IsPremium is trip.premium and IncludeId(id) is
\* (trip.id = id).
C24_ComparisonFaithful ==
  output.fn = "filter_eval"
  => LET f == input.filter
         trip == input.trip
     IN CASE f.kind = "FieldIs" ->
               output.ret = Returned(OpOn(f.op, TimeRank(Trip_get(trip, f.field)),
                                          TimeRank(f.val)))
          [] f.kind = "DateIs" ->
               output.ret = Returned(OpOn(f.op, DateRank(trip.date),
                                          DateRank(f.val)))
          [] f.kind = "NumDays" ->
               output.ret = Returned(OpOn(f.op, trip.days, f.val))
          [] f.kind = "TimeDiff" ->
               LET d == SubIn(build, Trip_get(trip, f.lhs), Trip_get(trip, f.rhs))
               IN IF d.panic THEN output.ret.panic
                  ELSE output.ret = Returned(OpOn(f.op, TimeRank(d.val),
                                                  TimeRank(f.val)))
          [] f.kind = "IsPrem" -> output.ret = Returned(trip.premium)
          [] f.kind = "IncludeId" -> output.ret = Returned(trip.id = f.val)
          [] OTHER -> TRUE

\* C24 witness: arrive - depart of trip AB12 (15:00 - 07:30) is 19:30, and
\* TimeDiff(Arrive, Depart, GtEq, 19:30) has evaluated true on it.
C24_Witness ==
  /\ output.fn = "filter_eval"
  /\ input.trip = TripAB12
  /\ input.filter = [kind |-> "TimeDiff", lhs |-> "Arrive", rhs |-> "Depart",
                     op |-> "GtEq", val |-> Time(19, 30)]
  /\ output.ret = Returned(TRUE)

Inert == {"Nothing", "Ignore"}

\* Every trip of clipboard text k resolves, under the rule set rs, to
\* Nothing or to Ignore.
InertText(k, rs) ==
  LET res == FilterParsed(parse_trips(ClipTexts[k]), rs, build)
  IN /\ ~res.panic
     /\ res.val # <<>>
     /\ \A i \in 1..Len(res.val) : res.val[i].action \in Inert

\* The scrape of this iteration has announced text k, and nothing has been
\* taken from or added to the status channel since.
LastCopied(k) == tx # <<>> /\ tx[Len(tx)] = MsgCopied(k)

\* C25: only Alert and Pickup trigger anything: the turn of the dispatch loop
\* for a trip resolved to Nothing or to Ignore runs no pickup keys, leaves
\* the sound and the state as they are and sends nothing, and a turn that
\* triggers something is for an Alert or a Pickup; so when the loop is
\* through a text whose trips all resolve to Nothing or Ignore, the worker
\* is Running, the sound paused and no key sequence run.
C25_OnlyAlertAndPickupTrigger ==
  /\ [][(pc = "dispatch" /\ filtered' # filtered)
        => IF Head(filtered).action \in Inert
           THEN /\ picked' = picked
                /\ sink' = sink
                /\ state' = state
                /\ tx' = tx
                /\ pc' = "dispatch"
           ELSE /\ Head(filtered).action \in {"Alert", "Pickup"}
                /\ Triggers]_vars
  /\ [](\A k \in 1..Len(ClipTexts) :
          (pc \in {"dispatch", "idle"} /\ filtered = <<>> /\ scrapes = 1
           /\ LastCopied(k) /\ InertText(k, rules))
          => (state = "Running" /\ sink = "paused" /\ picked = <<>>))

\* C25 witness: under the Alert/Ignore set the dispatch loop is through the
\* first text, whose trips resolve to Nothing (CD34) and Ignore (EF56): the
\* worker is Running and the Copied event is the last one it sent.
C25_Witness ==
  /\ pc = "dispatch"
  /\ filtered = <<>>
  /\ rules = <<RuleAlertLHR, RuleIgnoreAMS>>
  /\ LastCopied(1)
  /\ InertText(1, rules)
  /\ state = "Running"

C27_WaitingWithinBounds ==
  /\ refresh_interval = RefreshLo
  /\ [][/\ (pc = "refresh" /\ pc' = "wait_load")
           => /\ Sends("Waiting")
              /\ tx'[Len(tx')].secs = refresh_interval'
              /\ RefreshLo <= refresh_interval'
              /\ refresh_interval' < RefreshHi
        /\ Sends("Waiting") => (pc = "refresh" /\ pc' = "wait_load")
        /\ refresh_interval' # refresh_interval => Sends("Waiting")
        /\ pc' = "wait_load" => pc \in {"refresh", "wait_load"}]_vars

\* C27 witness: the worker has refreshed with the longest interval the range
\* holds, and its Waiting(29) is in the status channel.
C27_Witness ==
  /\ pc = "wait_load"
  /\ refresh_interval = RefreshHi - 1
  /\ tx = <<MsgWaiting(RefreshHi - 1)>>

InPoll == pc \in {"wait_load", "wait_blank"}

\* C28: the page-load polls after a refresh read neither the command channel
\* nor the cancellation hotkey: while the worker is in them its state stays
\* Running, no command is taken, the sound is left alone and no Stop event
\* is sent; the first poll is left only for the second and the second only
\* with a capture that is not blank, and either may go round once more
\* whatever has happened (there is no timeout).
C28_PollIgnoresCancel ==
  [][InPoll
     => /\ state = "Running" /\ state' = "Running"
        /\ Len(rx') >= Len(rx)
        /\ Len(tx') <= Len(tx)
        /\ sink' = sink
        /\ pc = "wait_load" => pc' \in {"wait_load", "wait_blank"}
        /\ pc = "wait_blank" => pc' \in {"wait_blank", "capture"}
        /\ (pc = "wait_blank" /\ pc' = "capture") => new_update_time' # "blank"
        /\ (pc = "wait_blank" /\ new_update_time' = "blank") => pc' = "wait_blank"
        /\ pc = "wait_load" => ENABLED (WaitLoad /\ pc' = "wait_load")
        /\ pc = "wait_blank" => ENABLED (WaitBlank /\ pc' = "wait_blank")]_vars

\* C28 witness: the worker is in the second poll, the last-updated region
\* still blank, while the operator's Stop waits in the command channel and
\* the host shows Stopped.
C28_Witness ==
  /\ pc = "wait_blank"
  /\ new_update_time = "blank"
  /\ state = "Running"
  /\ rx = <<MsgStop>>
  /\ host_state = "Stopped"

(***************************************************************************)
(* Further claims about Time, under SpecTime                               *)
(***************************************************************************)

\* hours in 0..23 and minutes in 0..59.
ValidTime(t) == t.hours \in 0..23 /\ t.minutes \in 0..59

\* C29: Time subtraction is total and closed on valid values: for every pair
\* of TimeValues with hours in 0..23 and minutes in 0..59, lhs - rhs is
\* computed without a u8 operation leaving 0..255 and yields a TimeValue
\* with hours in 0..23 and minutes in 0..59.
C29_SubTotalAndClosed ==
  (output.fn = "sub" /\ ValidTime(input.lhs) /\ ValidTime(input.rhs))
  => /\ ~Time_sub(input.lhs, input.rhs).over
     /\ ~output.ret.panic
     /\ ValidTime(output.ret.val)

\* C30: parsing never produces an out-of-range time: for every token,
\* FromStr and from_num_str either fail or return a TimeValue with hours in
\* 0..23 and minutes in 0..59, and a token of five characters is accepted
\* only when its third character is the separator ':'.
C30_ParsedTimeInRange ==
  (output.fn \in {"from_str", "from_num_str"} /\ output.ret.ok)
  => /\ ValidTime(output.ret.val)
     /\ Len(TokenOf(input)) = 5 => TokenOf(input)[3] = ":"

\* The last command the host sent is a Stop that the worker has not taken
\* yet.
StopSentLast ==
  /\ host_state = "Stopped"
  /\ rx # <<>>
  /\ rx[Len(rx)].type = "Stop"

\* The step starts a scrape: it sends CopyScreen and presses the copy keys.
ScrapeStep == pc = "capture" /\ pc' = "clipboard"

\* C31: Stop is final for queued work: when the host sent its Stop while an
\* earlier Start was still in the command channel, the worker, having taken
\* that Start, performs no scrape (and so no dispatch, which only a scrape
\* leads to) as long as the Stop is the last command sent.  (Work of an
\* iteration that was under way when the Stop was sent is left aside.)
C31_StopFinalForQueuedWork ==
  [][(late_start /\ StopSentLast) => ~ScrapeStep]_vars

\* C32: the alert sound plays only while an alert is pending: in every
\* reachable state in which the worker is Stopped (after a Stop command,
\* after the automatic stop of a Pickup, or after the cancellation hotkey)
\* the sound is paused.
C32_StoppedMeansSilent ==
  state = "Stopped" => sink = "paused"

\* The worker is alive at the top of its loop and both channels are empty.
Quiescent == alive /\ pc = "top" /\ rx = <<>> /\ tx = <<>>

FilterTypes ==
  {"NewFilter", "TimeDiff", "FieldIs", "DateIs", "IncludeLayover",
   "ExcludeLayover", "NumDays", "IsPrem", "IncludeId"}

\* Date::default().
DateDefault == Date(2025, 1, 1)

\* impl From<FilterType> for Filter: the filter, or the panic of NewFilter.
Filter_from(value) ==
  CASE value = "NewFilter" -> Panic
    [] value = "TimeDiff" ->
         Returned([kind |-> "TimeDiff", lhs |-> "Report", rhs |-> "Report",
                   op |-> "Eq", val |-> TimeDefault])
    [] value = "FieldIs" ->
         Returned([kind |-> "FieldIs", field |-> "Report", op |-> "Eq",
                   val |-> TimeDefault])
    [] value = "DateIs" ->
         Returned([kind |-> "DateIs", op |-> "Eq", val |-> DateDefault])
    [] value = "IncludeLayover" -> Returned(FInclude(<<>>))
    [] value = "ExcludeLayover" -> Returned(FExclude(<<>>))
    [] value = "NumDays" ->
         Returned([kind |-> "NumDays", op |-> "Eq", val |-> 1])
    [] value = "IsPrem" -> Returned(FIsPrem)
    [] value = "IncludeId" -> Returned(FInclude(<<>>))

\* RulesPane::update on SubmitEntry(_, _, f) with the entry box holding s:
\* the filter left in the rule.
SubmitEntry(f, s) ==
  CASE f.kind \in {"FieldIs", "TimeDiff"} ->
         LET t == from_str(s)
         IN IF t.ok THEN [f EXCEPT !.val = t.val] ELSE f
    [] f.kind = "DateIs" ->
         LET d == Date_from_str(s)
         IN IF d.ok THEN [f EXCEPT !.val = d.val] ELSE f
    [] f.kind = "NumDays" ->
         LET num == ParseU8(s)
         IN IF num.ok THEN [f EXCEPT !.val = num.val] ELSE f
    [] f.kind \in {"IncludeLayover", "ExcludeLayover", "IncludeId"} ->
         [f EXCEPT !.val = s]
    [] f.kind = "IsPrem" -> f

\* What the operator types into the entry box: nothing, a trip id, a layover
\* code, a time, a date, a number of days.
EntryTexts ==
  {<<>>, TripAB12.id, LHR, <<"0", "7", "0", "0">>,
   <<"1", "5", "J", "A", "N">>, <<"3">>}

InitFrom ==
  /\ build \in Builds
  /\ input \in [kind : {"new_filter"}, ftype : FilterTypes,
                entry : EntryTexts, trip : TripSamples]
  /\ output = NoCall
  /\ MonitorAtRest

\* Message::NewFilter: the picked kind is converted and pushed to the rule.
CallNewFilter ==
  /\ input.kind = "new_filter"
  /\ output = NoCall
  /\ output' = [fn |-> "from", ret |-> Filter_from(input.ftype)]
  /\ UNCHANGED <<build, input, monVars>>

\* Message::SubmitEntry on the filter just pushed.
CallSubmitEntry ==
  /\ input.kind = "new_filter"
  /\ output.fn = "from"
  /\ ~output.ret.panic
  /\ output' = [fn |-> "submit",
                ret |-> Returned(SubmitEntry(output.ret.val, input.entry))]
  /\ UNCHANGED <<build, input, monVars>>

\* The worker evaluates the filter of the rule on a trip.
CallBuiltEval ==
  /\ input.kind = "new_filter"
  /\ output.fn = "submit"
  /\ output' = [fn |-> "built_eval", filter |-> output.ret.val,
                ret |-> Filter_eval(output.ret.val, input.trip, build)]
  /\ UNCHANGED <<build, input, monVars>>

NextFrom == CallNewFilter \/ CallSubmitEntry \/ CallBuiltEval

SpecFrom == InitFrom /\ [][NextFrom]_vars

\* C34: creating a filter from a filter kind preserves the kind: for each of
\* the eight selectable kinds (every FilterType but NewFilter) the conversion
\* returns a filter of the same kind, and a filter built as IncludeId and
\* given a value tests trip.id: its evaluation is (trip.id = value).
C34_FromPreservesKind ==
  /\ (output.fn = "from" /\ input.ftype # "NewFilter")
       => (~output.ret.panic /\ output.ret.val.kind = input.ftype)
  /\ (output.fn = "built_eval" /\ input.ftype = "IncludeId")
       => output.ret = Returned(input.trip.id = input.entry)

====
